---- MODULE Spec2Model ----
(***************************************************************************)
(* The editing engine of one buffer (src/src/engine.rs, struct Editor):    *)
(* rope text, selection set, editor mode, cursor direction, scroll offset   *)
(* and the undo/redo stacks of edit transactions, driven by key and mouse   *)
(* events.  Text positions are CharIndex values (0-based, in characters);  *)
(* a rope is a sequence of characters.  The syntax tree is a function of    *)
(* the text produced by the external parser and is not part of the state.  *)
(***************************************************************************)
EXTENDS Integers, Sequences, FiniteSets, TLC

VARIABLES text, mode, jumps, selection_set, selection_history, cursor_direction,
          undo_edits, redo_edits, scroll_offset, dimension, panicked, last,
          history_followed, comparison

vars == <<text, mode, jumps, selection_set, selection_history, cursor_direction,
          undo_edits, redo_edits, scroll_offset, dimension, panicked, last,
          history_followed, comparison>>

\* ------------------------------------------------------------------ bounds
\* Longest text a buffer is opened with.
MaxInitLen == 2
\* Longest buffer the model explores (edits that would exceed it are not taken).
MaxLen == 4
\* Deepest undo stack the model explores.
MaxUndo == 2
\* Most selections (primary and secondaries) in the selection set.
MaxSelections == 2
\* Deepest call stack of a comparison: one call more exhausts the stack.
MaxStack == 6
\* Longest buffer the model explores from the 24-character buffer of the tests.
MaxTestLen == 26
\* Largest scroll offset mouse scrolling is followed to (u16 in the code).
MaxScroll == 1
\* Deepest selection history followed with the edit commands.
MaxHistory == 1
\* Deepest selection history followed when only selection commands run.
MaxHistoryLen == 129
\* The length of the text the jumps are generated on: longer than the labels last.
MaxJumpLen == 64

\* ------------------------------------------------------------ characters
\* "a" is an ASCII letter, "E" stands for a two-byte character such as U+00E9,
\* "\n" is the line feed the Enter key inserts.
Chars == {"a", "E", "\n"}

\* str::len of one character: its UTF-8 length in bytes.
Utf8LenChar(c) == IF c = "E" THEN 2 ELSE 1

RECURSIVE Utf8Len(_)
\* str::len: the length of a string in bytes.
Utf8Len(s) == IF s = <<>> THEN 0 ELSE Utf8LenChar(Head(s)) + Utf8Len(Tail(s))

Min(a, b) == IF a < b THEN a ELSE b
Max(a, b) == IF a > b THEN a ELSE b
\* usize::saturating_sub
saturating_sub(a, b) == IF a > b THEN a - b ELSE 0

\* ------------------------------------------------------------------ rope
len_chars(t) == Len(t)
\* Rope::slice(a..b) panics unless a <= b <= len_chars.
slice_ok(t, a, b) == a <= b /\ b <= Len(t)
slice(t, a, b) == SubSeq(t, a + 1, b)
\* The slice of the part of a range that lies inside the rope.
slice_clamped(t, a, b) == slice(t, Min(a, Len(t)), Min(Max(a, b), Len(t)))

RECURSIVE count_newlines(_)
count_newlines(s) ==
    IF s = <<>> THEN 0
    ELSE (IF Head(s) = "\n" THEN 1 ELSE 0) + count_newlines(Tail(s))

\* CharIndex::to_point(rope).row: the line the character index lies on.
to_row(t, c) == count_newlines(slice(t, 0, Min(c, Len(t))))

\* ------------------------------------------------------------- selection
None == <<>>
Some(x) == <<x>>

Range(s, e) == [start |-> s, end |-> e]
Selection(r, y) == [range |-> r, yanked_text |-> y]

\* Selection::to_char_index: the end of the range the caret sits on.
to_char_index(sel, cd) ==
    IF cd = "Start" THEN sel.range.start ELSE sel.range.end

\* SelectionSet::map: the primary first, then the secondaries in order.
selections_of(ss) == <<ss.primary>> \o ss.secondary

\* SelectionMode::similar_to
similar_to(m1, m2) == m1 = m2

\* One character at position c, wrapping around at the end of the buffer.
char_range_wrapping(t, c) ==
    IF Len(t) = 0 THEN Range(0, 0)
    ELSE LET s == c % Len(t) IN Range(s, s + 1)

\* One character at position c, clamped to the buffer.
char_range(t, c) ==
    IF Len(t) = 0 THEN Range(0, 0)
    ELSE LET s == Min(c, Len(t) - 1) IN Range(s, s + 1)

\* The characters identifiers, keywords and literals are made of.
WordChars == {"a", "E", "e", "f", "i", "l", "m", "n", "t", "x", "1"}
Spaces == {" ", "\n"}

\* The leaves of the syntax tree of t: every maximal run of word characters and
\* every punctuation character, as CharIndex ranges.
leaves(t) ==
    {r \in {Range(s, e) : s \in 0..Len(t), e \in 0..Len(t)} :
        /\ r.start < r.end
        /\ \/ /\ r.end = r.start + 1
              /\ t[r.end] \notin WordChars \cup Spaces
           \/ /\ \A k \in (r.start + 1)..r.end : t[k] \in WordChars
              /\ r.start = 0 \/ t[r.start] \notin WordChars
              /\ r.end = Len(t) \/ t[r.end + 1] \notin WordChars}

\* The leaf of rs that starts first / last.
first_leaf(rs) == CHOOSE r \in rs : \A q \in rs : r.start <= q.start
last_leaf(rs) == CHOOSE r \in rs : \A q \in rs : r.start >= q.start

\* SelectionMode::Token: Current snaps to the leaf at the caret (the next one when
\* the caret is between leaves), Forward is the next leaf whose start >= caret+1,
\* Backward the previous leaf whose start < caret; no such leaf keeps the range.
token_range(t, sel, direction, c) ==
    LET at == {r \in leaves(t) : r.start <= c /\ c < r.end}
        after(k) == {r \in leaves(t) : r.start >= k}
        before == {r \in leaves(t) : r.start < c}
    IN CASE direction = "Current" ->
                IF at # {} THEN first_leaf(at)
                ELSE IF after(c) # {} THEN first_leaf(after(c)) ELSE sel.range
         [] direction = "Forward" ->
                IF after(c + 1) # {} THEN first_leaf(after(c + 1)) ELSE sel.range
         [] direction = "Backward" ->
                IF before # {} THEN last_leaf(before) ELSE sel.range

\* Selection::get_selection_: the next, previous or current selection of a mode.
get_selection_(t, sel, m, direction, cd) ==
    LET c == to_char_index(sel, cd) IN
    IF m = "Token" THEN Selection(token_range(t, sel, direction, c), sel.yanked_text)
    ELSE IF m = "Character" THEN
        CASE direction = "Current"  -> Selection(char_range(t, c), sel.yanked_text)
          [] direction = "Forward"  ->
                Selection(char_range(t, sel.range.start + 1), sel.yanked_text)
          [] direction = "Backward" ->
                Selection(char_range(t, saturating_sub(sel.range.start, 1)),
                          sel.yanked_text)
    ELSE \* Custom: a free range, canonically the caret itself
        Selection(Range(c, c), sel.yanked_text)

RECURSIVE dedup(_, _)
\* Keeps the first selection of every range.
dedup(sels, seen) ==
    IF sels = <<>> THEN <<>>
    ELSE IF Head(sels).range \in seen THEN dedup(Tail(sels), seen)
    ELSE <<Head(sels)>> \o dedup(Tail(sels), seen \cup {Head(sels).range})

\* SelectionSet::generate: steps every selection; colliding results are dropped,
\* the primary survives.
generate(ss, t, m, direction, cd) ==
    LET all == [i \in 1..Len(selections_of(ss)) |->
                   get_selection_(t, selections_of(ss)[i], m, direction, cd)]
        kept == dedup(all, {})
    IN [primary |-> Head(kept), secondary |-> Tail(kept), mode |-> m]

\* ------------------------------------------------------- edit transaction
\* Edit { start, old, new } and Action::{Edit, Select}.
Edit(start, old, new) == [kind |-> "Edit", start |-> start, old |-> old, new |-> new]
Select(sel) == [kind |-> "Select", selection |-> sel]

\* Edit::end
edit_end(edit) == edit.start + Len(edit.old)
chars_offset(edit) == Len(edit.new) - Len(edit.old)

action_start(a) == IF a.kind = "Edit" THEN a.start ELSE a.selection.range.start

RECURSIVE group_start(_)
\* ActionGroup::range().start: the least position an action of the group names.
group_start(g) ==
    IF Len(g) = 1 THEN action_start(Head(g))
    ELSE Min(action_start(Head(g)), group_start(Tail(g)))

RECURSIVE get_net_offset(_)
\* The length the edits of a group add to the rope.
get_net_offset(g) ==
    IF g = <<>> THEN 0
    ELSE (IF Head(g).kind = "Edit" THEN chars_offset(Head(g)) ELSE 0)
         + get_net_offset(Tail(g))

\* CharIndex::apply_offset
char_apply_offset(c, offset) == Max(c + offset, 0)

apply_offset(a, offset) ==
    IF a.kind = "Edit"
    THEN Edit(char_apply_offset(a.start, offset), a.old, a.new)
    ELSE Select(Selection(Range(char_apply_offset(a.selection.range.start, offset),
                                char_apply_offset(a.selection.range.end, offset)),
                          a.selection.yanked_text))

RECURSIVE insert_sorted(_, _)
insert_sorted(tg, sorted) ==
    IF sorted = <<>> THEN <<tg>>
    ELSE IF group_start(tg.actions) < group_start(Head(sorted).actions)
         THEN <<tg>> \o sorted
         ELSE <<Head(sorted)>> \o insert_sorted(tg, Tail(sorted))

RECURSIVE sort_groups(_)
\* Stable sort of the (lineage-tagged) groups by their start.
sort_groups(tgs) ==
    IF tgs = <<>> THEN <<>>
    ELSE insert_sorted(tgs[Len(tgs)], sort_groups(SubSeq(tgs, 1, Len(tgs) - 1)))

RECURSIVE normalize(_, _)
\* Shifts every group by the net length of the groups before it and flattens.
normalize(sorted, offset) ==
    IF sorted = <<>> THEN <<>>
    ELSE LET g == Head(sorted) IN
         [i \in 1..Len(g.actions) |->
             [lineage |-> g.lineage, action |-> apply_offset(g.actions[i], offset)]]
         \o normalize(Tail(sorted), offset + get_net_offset(g.actions))

\* The edits of a group.
group_edits(g) == SelectSeq(g, LAMBDA a : a.kind = "Edit")

RECURSIVE group_end(_)
\* The greatest position an edit of the group reaches.
group_end(g) ==
    IF g = <<>> THEN 0
    ELSE Max(IF Head(g).kind = "Edit" THEN edit_end(Head(g)) ELSE 0, group_end(Tail(g)))

\* The part of the rope the edits of a group span.
group_span(g) ==
    [start |-> group_start(group_edits(g)), end |-> group_end(group_edits(g))]

\* The spans of the edits of different groups do not overlap.  Only such
\* groups have a normal form the specification describes.
groups_disjoint(groups) ==
    \A i \in 1..Len(groups) : \A j \in 1..Len(groups) :
        (i # j /\ group_edits(groups[i]) # <<>> /\ group_edits(groups[j]) # <<>>) =>
            LET x == group_span(groups[i])
                y == group_span(groups[j])
            IN ~(x.start < y.end /\ y.start < x.end)

\* EditTransaction::from_action_groups: the pre-image selection set and the
\* normalized actions; group i belongs to cursor i (the primary is cursor 1).
from_action_groups(ss, groups) ==
    LET tagged == [i \in 1..Len(groups) |-> [lineage |-> i, actions |-> groups[i]]]
        nonempty == SelectSeq(tagged, LAMBDA tg : tg.actions # <<>>)
    IN [selection_set |-> ss, action_group |-> normalize(sort_groups(nonempty), 0),
        disjoint |-> groups_disjoint(groups)]

actions_of(T) == [i \in 1..Len(T.action_group) |-> T.action_group[i].action]

\* EditTransaction::merge: every transaction is already normalized and is
\* shifted as a whole.
merge(ss, Ts) ==
    LET T == from_action_groups(ss, [i \in 1..Len(Ts) |-> actions_of(Ts[i])])
    IN [T EXCEPT !.disjoint = @ /\ \A i \in 1..Len(Ts) : Ts[i].disjoint]

\* EditTransaction::edits: the edits in their order of application.
edits(T) == SelectSeq(actions_of(T), LAMBDA a : a.kind = "Edit")

RECURSIVE last_select(_, _)
last_select(tagged, l) ==
    IF tagged = <<>> THEN <<>>
    ELSE LET a == tagged[Len(tagged)] IN
         IF a.lineage = l /\ a.action.kind = "Select" THEN <<a.action.selection>>
         ELSE last_select(SubSeq(tagged, 1, Len(tagged) - 1), l)

RECURSIVE selections_from(_, _, _)
selections_from(tagged, l, n) ==
    IF l > n THEN <<>>
    ELSE last_select(tagged, l) \o selections_from(tagged, l + 1, n)

\* EditTransaction::selections: the last Select of every cursor, primary first.
selections(T) == selections_from(T.action_group, 1, Len(T.action_group))

\* ------------------------------------------- apply_edit_transaction (free fn)
\* apply_edit: Rope::remove and Rope::insert panic on a range outside the rope.
apply_edit_ok(t, edit) == edit_end(edit) <= Len(t)
apply_edit(t, edit) ==
    slice(t, 0, edit.start) \o edit.new \o slice(t, edit_end(edit), Len(t))

RECURSIVE apply_edits(_, _)
\* Folds apply_edit over the edits; ok is FALSE when one of them panics.
apply_edits(t, es) ==
    IF es = <<>> THEN [ok |-> TRUE, text |-> t]
    ELSE IF ~apply_edit_ok(t, Head(es)) THEN [ok |-> FALSE, text |-> t]
    ELSE apply_edits(apply_edit(t, Head(es)), Tail(es))

\* ---------------------------------------------------------------- Editor
\* The editor as one value: the fields of struct Editor.
Editor ==
    [text |-> text, mode |-> mode, jumps |-> jumps, selection_set |-> selection_set,
     selection_history |-> selection_history,
     cursor_direction |-> cursor_direction, undo_edits |-> undo_edits,
     redo_edits |-> redo_edits, scroll_offset |-> scroll_offset,
     dimension |-> dimension, panicked |-> panicked, unspecified |-> FALSE]

\* A panic (a Rope range outside the rope, an unwrap of Err) ends the handler.
Panic(e) == [e EXCEPT !.panicked = TRUE]

\* The handler met a transaction whose groups overlap: what the editor does
\* with it is not described, and the model does not follow it.
Unspecified(e) == [e EXCEPT !.unspecified = TRUE]

get_cursor_char_index(e) == to_char_index(e.selection_set.primary, e.cursor_direction)

cursor_row(e) == to_row(e.text, get_cursor_char_index(e))

align_cursor_to_center(e) ==
    [e EXCEPT !.scroll_offset =
        saturating_sub(cursor_row(e), saturating_sub(e.dimension, 2) \div 2)]

\* Recentres the view when the primary selection is out of it.
recalculate_scroll_offset(e) ==
    IF \/ saturating_sub(cursor_row(e), e.scroll_offset) >= saturating_sub(e.dimension, 2)
       \/ cursor_row(e) < e.scroll_offset
    THEN align_cursor_to_center(e)
    ELSE e

update_selection_set(e, ss) ==
    recalculate_scroll_offset(
        [e EXCEPT !.selection_set = ss, !.selection_history = Append(@, ss)])

\* Editor::select_backward: pops the history until an entry differs from the
\* current selection set and installs that entry; the entries popped on the
\* way are gone, also when none differs.
select_backward(e) ==
    LET h == e.selection_history
        differing == {i \in 1..Len(h) : h[i] # e.selection_set}
    IN IF differing = {} THEN [e EXCEPT !.selection_history = <<>>]
       ELSE LET i == CHOOSE i \in differing : \A k \in differing : k <= i
            IN [e EXCEPT !.selection_set = h[i],
                         !.selection_history = SubSeq(h, 1, i - 1)]

\* Editor::toggle_highlight_mode: its body is commented out.
toggle_highlight_mode(e) == e

get_selection_set(e, m, direction) ==
    generate(e.selection_set, e.text, m, direction, e.cursor_direction)

\* select without the snap to the current selection on a change of mode.
select_stepping(e, m, direction) ==
    update_selection_set(e, get_selection_set(e, m, direction))

select(e, m, direction) ==
    LET d == IF similar_to(e.selection_set.mode, m) THEN direction ELSE "Current"
    IN update_selection_set(e, get_selection_set(e, m, d))

select_token(e, direction) == select(e, "Token", direction)

move_selection(e, direction) ==
    update_selection_set(e, get_selection_set(e, e.selection_set.mode, direction))

\* inversed_edit_transaction without swapping old and new.
inversed_edit_transaction_unswapped(e, T) ==
    from_action_groups(e.selection_set,
        [i \in 1..Len(edits(T)) |->
            <<Edit(edits(T)[i].start, edits(T)[i].old, edits(T)[i].new)>>])

\* inversed_edit_transaction inverting only the first edit of the transaction.
inversed_edit_transaction_first_only(e, T) ==
    from_action_groups(e.selection_set,
        [i \in 1..Min(1, Len(edits(T))) |->
            <<Edit(edits(T)[i].start, edits(T)[i].new, edits(T)[i].old)>>])

\* The inverse of a transaction: one group per applied edit, old and new swapped.
inversed_edit_transaction(e, T) ==
    from_action_groups(e.selection_set,
        [i \in 1..Len(edits(T)) |->
            <<Edit(edits(T)[i].start, edits(T)[i].new, edits(T)[i].old)>>])

\* push_history with a new edit keeping the redo stack.
push_history_keeping_redo(e, kind, inv) ==
    CASE kind = "NewEdit" -> [e EXCEPT !.undo_edits = Append(@, inv)]
      [] kind = "Undo" -> [e EXCEPT !.redo_edits = Append(@, inv)]
      [] kind = "Redo" -> [e EXCEPT !.undo_edits = Append(@, inv)]

\* push_history with an undo that records nothing to redo.
push_history_dropping_redo(e, kind, inv) ==
    CASE kind = "NewEdit" ->
            [e EXCEPT !.redo_edits = <<>>, !.undo_edits = Append(@, inv)]
      [] kind = "Undo" -> e
      [] kind = "Redo" -> [e EXCEPT !.undo_edits = Append(@, inv)]

\* The stacks after a transaction of the given kind has been recorded.
push_history(e, kind, inv) ==
    CASE kind = "NewEdit" ->
            [e EXCEPT !.redo_edits = <<>>, !.undo_edits = Append(@, inv)]
      [] kind = "Undo" -> [e EXCEPT !.redo_edits = Append(@, inv)]
      [] kind = "Redo" -> [e EXCEPT !.undo_edits = Append(@, inv)]

\* Editor::apply_edit_transaction
apply_edit_transaction(e, kind, T) ==
    LET e1 == push_history(e, kind, inversed_edit_transaction(e, T))
        sels == selections(T)
        e2 == IF sels # <<>>
              THEN [e1 EXCEPT !.selection_set =
                       [primary |-> Head(sels), secondary |-> Tail(sels),
                        mode |-> e.selection_set.mode]]
              ELSE e1
        r == apply_edits(e.text, edits(T))
    IN IF ~T.disjoint THEN Unspecified(e)
       ELSE IF ~r.ok THEN Panic(e2)
       ELSE recalculate_scroll_offset([e2 EXCEPT !.text = r.text])

\* revert_change that leaves the selection set the transaction produced.
revert_change_keeping_selection(e, T, kind) ==
    apply_edit_transaction(e, kind, T)

revert_change(e, T, kind) ==
    LET e1 == apply_edit_transaction(e, kind, T)
    IN IF e1.panicked THEN e1 ELSE update_selection_set(e1, T.selection_set)

\* undo that leaves insert mode when there is nothing to undo.
undo_leaving_mode(e) ==
    IF e.undo_edits # <<>>
    THEN revert_change([e EXCEPT !.undo_edits = SubSeq(@, 1, Len(@) - 1)],
                       e.undo_edits[Len(e.undo_edits)], "Undo")
    ELSE [e EXCEPT !.mode = "Normal"]

undo(e) ==
    IF e.undo_edits # <<>>
    THEN revert_change([e EXCEPT !.undo_edits = SubSeq(@, 1, Len(@) - 1)],
                       e.undo_edits[Len(e.undo_edits)], "Undo")
    ELSE e

redo(e) ==
    IF e.redo_edits # <<>>
    THEN revert_change([e EXCEPT !.redo_edits = SubSeq(@, 1, Len(@) - 1)],
                       e.redo_edits[Len(e.redo_edits)], "Redo")
    ELSE e

\* Every selection's range lies inside the rope, so Rope::slice does not panic.
all_slices_ok(e) ==
    \A i \in 1..Len(selections_of(e.selection_set)) :
        LET r == selections_of(e.selection_set)[i].range
        IN slice_ok(e.text, r.start, r.end)

\* The groups a command builds, one per selection (SelectionSet::map).
map_groups(e, f(_)) ==
    [i \in 1..Len(selections_of(e.selection_set)) |->
        f(selections_of(e.selection_set)[i])]

insert(e, s) ==
    LET group(sel) ==
            <<Edit(sel.range.start, <<>>, s),
              Select(Selection(Range(sel.range.start + Utf8Len(s),
                                     sel.range.start + Utf8Len(s)),
                               sel.yanked_text))>>
    IN apply_edit_transaction(e, "NewEdit",
           from_action_groups(e.selection_set, map_groups(e, group)))

\* backspace that leaves every caret where it was.
backspace_keeping_caret(e) ==
    LET group(sel) ==
            LET start == saturating_sub(sel.range.start, 1) IN
            <<Edit(start, slice(e.text, start, sel.range.start), <<>>),
              Select(Selection(Range(sel.range.start, sel.range.start),
                               sel.yanked_text))>>
    IN IF \E i \in 1..Len(selections_of(e.selection_set)) :
              selections_of(e.selection_set)[i].range.start > Len(e.text)
       THEN Panic(e)
       ELSE apply_edit_transaction(e, "NewEdit",
                from_action_groups(e.selection_set, map_groups(e, group)))

backspace(e) ==
    LET group(sel) ==
            LET start == saturating_sub(sel.range.start, 1) IN
            <<Edit(start, slice(e.text, start, sel.range.start), <<>>),
              Select(Selection(Range(start, start), sel.yanked_text))>>
    IN IF \E i \in 1..Len(selections_of(e.selection_set)) :
              selections_of(e.selection_set)[i].range.start > Len(e.text)
       THEN Panic(e)
       ELSE apply_edit_transaction(e, "NewEdit",
                from_action_groups(e.selection_set, map_groups(e, group)))

\* SelectionSet::yank: every selection keeps the text under its range.
yank(ss, t) ==
    LET y(sel) == Selection(sel.range,
                     Some(slice_clamped(t, sel.range.start, sel.range.end)))
    IN [primary |-> y(ss.primary),
        secondary |-> [i \in 1..Len(ss.secondary) |-> y(ss.secondary[i])],
        mode |-> ss.mode]

\* yank_current_selection that yanks under the primary selection only.
yank_current_selection_primary_only(e) ==
    [e EXCEPT !.selection_set.primary = yank(e.selection_set, e.text).primary]

yank_current_selection(e) == [e EXCEPT !.selection_set = yank(@, e.text)]

\* The characters jumps are labelled with, in the order they are handed out:
\* a-z interleaved with A-Z, that interleaved with 0-9, then , and . -- without
\* j and J.
LowerCase ==
    <<"a", "b", "c", "d", "e", "f", "g", "h", "i", "j", "k", "l", "m">>
    \o <<"n", "o", "p", "q", "r", "s", "t", "u", "v", "w", "x", "y", "z">>
UpperCase ==
    <<"A", "B", "C", "D", "E", "F", "G", "H", "I", "J", "K", "L", "M">>
    \o <<"N", "O", "P", "Q", "R", "S", "T", "U", "V", "W", "X", "Y", "Z">>
Digits == <<"0", "1", "2", "3", "4", "5", "6", "7", "8", "9">>

RECURSIVE interleave(_, _)
\* Itertools::interleave: the elements of a and b in turn, then what is left of
\* the longer one.
interleave(a, b) ==
    IF a = <<>> THEN b
    ELSE <<Head(a)>> \o interleave(b, Tail(a))

\* The labels with j and J among them.
JumpLabelsUnfiltered ==
    interleave(interleave(LowerCase, UpperCase), Digits) \o <<",", ".">>

JumpLabels ==
    SelectSeq(interleave(interleave(LowerCase, UpperCase), Digits) \o <<",", ".">>,
              LAMBDA c : c \notin {"j", "J"})

RECURSIVE jumps_from(_, _, _, _)
\* The selections reached by stepping on from current, one per label, until
\* the step no longer moves.
jumps_from(e, current, direction, k) ==
    IF k > Len(JumpLabels) THEN <<>>
    ELSE LET next_selection == get_selection_(e.text, current, e.selection_set.mode,
                                              direction, e.cursor_direction)
         IN IF next_selection # current
            THEN <<[character |-> JumpLabels[k], selection |-> next_selection]>>
                     \o jumps_from(e, next_selection, direction, k + 1)
            ELSE <<>>

jump_from_selection(e, direction, selection) ==
    [e EXCEPT !.mode = "Jump", !.jumps = jumps_from(e, selection, direction, 1)]

jump(e, direction) == jump_from_selection(e, direction, e.selection_set.primary)

\* The first jump of the list, whatever its range.
head_jump(js) == js[1]

\* Iterator::max_by on the start of the range: the last of the greatest.
last_jump(js) ==
    js[CHOOSE i \in 1..Len(js) :
          /\ \A k \in 1..Len(js) : js[k].selection.range.start <= js[i].selection.range.start
          /\ \A k \in (i + 1)..Len(js) :
                 js[k].selection.range.start < js[i].selection.range.start]

\* Iterator::min_by on the end of the range: the first of the least.
first_jump(js) ==
    js[CHOOSE i \in 1..Len(js) :
          /\ \A k \in 1..Len(js) : js[k].selection.range.end >= js[i].selection.range.end
          /\ \A k \in 1..(i - 1) :
                 js[k].selection.range.end > js[i].selection.range.end]

\* SelectionSet::replace as delete_current_selection calls it: old is the text
\* under the selection, new is empty, the selection collapses to the edit's start.
delete_current_selection(e) ==
    LET e1 == yank_current_selection(e)
        group(sel) ==
            <<Edit(sel.range.start, slice(e.text, sel.range.start, sel.range.end), <<>>),
              Select(Selection(Range(sel.range.start, sel.range.start),
                               sel.yanked_text))>>
    IN IF ~all_slices_ok(e) THEN Panic(e)
       ELSE apply_edit_transaction(e1, "NewEdit",
                from_action_groups(e1.selection_set, map_groups(e1, group)))

\* paste that selects the pasted text in every mode.
paste_selecting_always(e) ==
    LET tx(sel) ==
            IF sel.yanked_text # None
            THEN LET start == to_char_index(sel, e.cursor_direction)
                     y == sel.yanked_text[1]
                 IN from_action_groups(e.selection_set,
                      << <<Edit(start, <<>>, y),
                           Select(Selection(
                              Range(start, start + Len(y)),
                              Some(y)))>> >>)
            ELSE from_action_groups(e.selection_set, <<>>)
    IN apply_edit_transaction(e, "NewEdit",
           merge(e.selection_set, map_groups(e, tx)))

paste(e) ==
    LET tx(sel) ==
            IF sel.yanked_text # None
            THEN LET start == to_char_index(sel, e.cursor_direction)
                     y == sel.yanked_text[1]
                 IN from_action_groups(e.selection_set,
                      << <<Edit(start, <<>>, y),
                           Select(Selection(
                              IF e.mode = "Insert"
                              THEN Range(start + Len(y), start + Len(y))
                              ELSE Range(start, start + Len(y)),
                              Some(y)))>> >>)
            ELSE from_action_groups(e.selection_set, <<>>)
    IN apply_edit_transaction(e, "NewEdit",
           merge(e.selection_set, map_groups(e, tx)))

\* replace that leaves the yanked text of the selection as it was.
replace_keeping_yank(e) ==
    LET tx(sel) ==
            IF sel.yanked_text # None
            THEN LET replacement == sel.yanked_text[1]
                     replaced_text == slice(e.text, sel.range.start, sel.range.end)
                 IN from_action_groups(e.selection_set,
                      << <<Edit(sel.range.start, replaced_text, replacement),
                           Select(Selection(
                              Range(sel.range.start, sel.range.start + Len(replacement)),
                              sel.yanked_text))>> >>)
            ELSE from_action_groups(e.selection_set, <<>>)
    IN IF \E i \in 1..Len(selections_of(e.selection_set)) :
             LET sel == selections_of(e.selection_set)[i]
             IN sel.yanked_text # None
                /\ ~slice_ok(e.text, sel.range.start, sel.range.end)
       THEN Panic(e)
       ELSE apply_edit_transaction(e, "NewEdit",
                merge(e.selection_set, map_groups(e, tx)))

replace(e) ==
    LET tx(sel) ==
            IF sel.yanked_text # None
            THEN LET replacement == sel.yanked_text[1]
                     replaced_text == slice(e.text, sel.range.start, sel.range.end)
                 IN from_action_groups(e.selection_set,
                      << <<Edit(sel.range.start, replaced_text, replacement),
                           Select(Selection(
                              Range(sel.range.start, sel.range.start + Len(replacement)),
                              Some(replaced_text)))>> >>)
            ELSE from_action_groups(e.selection_set, <<>>)
    IN IF \E i \in 1..Len(selections_of(e.selection_set)) :
             LET sel == selections_of(e.selection_set)[i]
             IN sel.yanked_text # None
                /\ ~slice_ok(e.text, sel.range.start, sel.range.end)
       THEN Panic(e)
       ELSE apply_edit_transaction(e, "NewEdit",
                merge(e.selection_set, map_groups(e, tx)))

enter_insert_mode(e) ==
    LET caret(sel) ==
            Selection(Range(to_char_index(sel, e.cursor_direction),
                            to_char_index(sel, e.cursor_direction)),
                      sel.yanked_text)
        ss == e.selection_set
    IN [e EXCEPT !.selection_set =
                    [primary |-> caret(ss.primary),
                     secondary |-> [i \in 1..Len(ss.secondary) |-> caret(ss.secondary[i])],
                     mode |-> "Custom"],
                 !.mode = "Insert",
                 !.cursor_direction = "Start"]

enter_normal_mode(e) == select([e EXCEPT !.mode = "Normal"], "Custom", "Current")

\* change that stays in the mode it was called in.
change_staying_normal(e) ==
    LET group(sel) ==
            LET yanked_text == slice(e.text, sel.range.start, sel.range.end) IN
            <<Edit(sel.range.start, yanked_text, <<>>),
              Select(Selection(Range(sel.range.start, sel.range.start),
                               Some(yanked_text)))>>
    IN IF ~all_slices_ok(e) THEN Panic(e)
       ELSE LET e1 == apply_edit_transaction(e, "NewEdit",
                         from_action_groups(e.selection_set, map_groups(e, group)))
            IN IF e1.panicked THEN e1 ELSE e1

change(e) ==
    LET group(sel) ==
            LET yanked_text == slice(e.text, sel.range.start, sel.range.end) IN
            <<Edit(sel.range.start, yanked_text, <<>>),
              Select(Selection(Range(sel.range.start, sel.range.start),
                               Some(yanked_text)))>>
    IN IF ~all_slices_ok(e) THEN Panic(e)
       ELSE LET e1 == apply_edit_transaction(e, "NewEdit",
                         from_action_groups(e.selection_set, map_groups(e, group)))
            IN IF e1.panicked THEN e1 ELSE enter_insert_mode(e1)

\* Editor::reset: the Custom selection at the caret, the primary only.
reset(e) ==
    LET e1 == select(e, "Custom", "Current")
    IN [e1 EXCEPT !.selection_set.secondary = <<>>]

\* SelectionSet::add_selection: the selection next to the primary in the current
\* mode joins the set unless it is already there.
add_selection(e) ==
    LET ss == e.selection_set
        next == get_selection_(e.text, ss.primary, ss.mode, "Forward", e.cursor_direction)
        have == {selections_of(ss)[i].range : i \in 1..Len(selections_of(ss))}
    IN recalculate_scroll_offset(
         IF next.range \in have THEN e
         ELSE [e EXCEPT !.selection_set.secondary = Append(@, next)])

change_cursor_direction(e) ==
    recalculate_scroll_offset(
      [e EXCEPT !.cursor_direction = IF @ = "Start" THEN "End" ELSE "Start"])

\* SelectionSet::move_left / move_right: the primary becomes a caret one
\* character to the left / right of its caret, inside the buffer.
move_left(e) ==
    LET c == saturating_sub(get_cursor_char_index(e), 1)
    IN [e EXCEPT !.selection_set.primary.range = Range(c, c)]

move_right(e) ==
    LET c == Min(get_cursor_char_index(e) + 1, Max(Len(e.text), get_cursor_char_index(e)))
    IN [e EXCEPT !.selection_set.primary.range = Range(c, c)]

\* Ctrl+A of handle_universal_key
select_all(e) ==
    [e EXCEPT !.selection_set =
        [primary |-> Selection(Range(0, Len(e.text)),
                               e.selection_set.primary.yanked_text),
         secondary |-> <<>>, mode |-> "Custom"]]

\* The scroll offset is a u16: saturating in both directions.
apply_scroll(e, scroll_height) ==
    [e EXCEPT !.scroll_offset =
        IF scroll_height > 0 THEN Min(@ + scroll_height, 65535)
        ELSE saturating_sub(@, -scroll_height)]

\* ------------------------------------------------------ faultless exchange
\* str::trim().is_empty()
is_blank(s) == \A i \in 1..Len(s) : s[i] \in {"\n", " "}

\* SelectionMode::is_node: whether the mode walks the syntax tree.
is_node(m) == m \in {"Token", "NamedNode", "SiblingNode", "ParentNode"}

RECURSIVE get_next_selection_padded(_, _, _, _, _)
\* get_next_selection committing the transaction of the dry run, whose second
\* edit pads the moved text with a space on both sides.
get_next_selection_padded(e, cur, next, m, direction) ==
    IF ~slice_ok(e.text, cur.range.start, cur.range.end)
       \/ ~slice_ok(e.text, next.range.start, next.range.end)
    THEN [ok |-> FALSE, tx |-> from_action_groups(e.selection_set, <<>>)]
    ELSE
    LET text_at_current_selection == slice(e.text, cur.range.start, cur.range.end)
        text_at_next_selection == slice(e.text, next.range.start, next.range.end)
        dry == from_action_groups(e.selection_set,
                  << <<Edit(cur.range.start, text_at_current_selection,
                            text_at_next_selection)>>,
                     <<Edit(next.range.start, text_at_next_selection,
                            <<" ">> \o text_at_current_selection \o <<" ">>),
                       Select(Selection(
                          Range(next.range.start,
                                next.range.start + Len(text_at_current_selection)),
                          cur.yanked_text))>> >>)
        new_selection == get_selection_(e.text, next, m, direction, e.cursor_direction)
    IN IF ~apply_edits(e.text, edits(dry)).ok
       THEN [ok |-> FALSE, tx |-> dry]
       ELSE IF ~is_blank(text_at_next_selection) /\ ~is_node(m)
       THEN [ok |-> TRUE, tx |-> dry]
       ELSE IF new_selection = next
       THEN [ok |-> TRUE, tx |-> from_action_groups(e.selection_set, <<>>)]
       ELSE get_next_selection_padded(e, cur, new_selection, m, direction)

\* get_next_selection committing the swap with the first candidate, blank or not.
get_next_selection_unfiltered(e, cur, next, m, direction) ==
    IF ~slice_ok(e.text, cur.range.start, cur.range.end)
       \/ ~slice_ok(e.text, next.range.start, next.range.end)
    THEN [ok |-> FALSE, tx |-> from_action_groups(e.selection_set, <<>>)]
    ELSE
    LET text_at_current_selection == slice(e.text, cur.range.start, cur.range.end)
        text_at_next_selection == slice(e.text, next.range.start, next.range.end)
        tx == from_action_groups(e.selection_set,
                  << <<Edit(cur.range.start, text_at_current_selection,
                            text_at_next_selection)>>,
                     <<Edit(next.range.start, text_at_next_selection,
                            text_at_current_selection),
                       Select(Selection(
                          Range(next.range.start,
                                next.range.start + Len(text_at_current_selection)),
                          cur.yanked_text))>> >>)
    IN [ok |-> apply_edits(e.text, edits(tx)).ok, tx |-> tx]

RECURSIVE get_next_selection(_, _, _, _, _)
\* The transaction that swaps selection cur with the first acceptable candidate
\* from next on; ok is FALSE when a slice or the dry run panics.
get_next_selection(e, cur, next, m, direction) ==
    IF ~slice_ok(e.text, cur.range.start, cur.range.end)
       \/ ~slice_ok(e.text, next.range.start, next.range.end)
    THEN [ok |-> FALSE, tx |-> from_action_groups(e.selection_set, <<>>)]
    ELSE
    LET text_at_current_selection == slice(e.text, cur.range.start, cur.range.end)
        text_at_next_selection == slice(e.text, next.range.start, next.range.end)
        dry == from_action_groups(e.selection_set,
                  << <<Edit(cur.range.start, text_at_current_selection,
                            text_at_next_selection)>>,
                     <<Edit(next.range.start, text_at_next_selection,
                            <<" ">> \o text_at_current_selection \o <<" ">>)>> >>)
        new_selection == get_selection_(e.text, next, m, direction, e.cursor_direction)
    IN IF ~apply_edits(e.text, edits(dry)).ok
       THEN [ok |-> FALSE, tx |-> dry]
       ELSE IF ~is_blank(text_at_next_selection) /\ ~is_node(m)
       THEN [ok |-> TRUE,
             tx |-> from_action_groups(e.selection_set,
                  << <<Edit(cur.range.start, text_at_current_selection,
                            text_at_next_selection)>>,
                     <<Edit(next.range.start, text_at_next_selection,
                            text_at_current_selection),
                       Select(Selection(
                          Range(next.range.start,
                                next.range.start + Len(text_at_current_selection)),
                          cur.yanked_text))>> >>)]
       ELSE IF new_selection = next
       THEN [ok |-> TRUE, tx |-> from_action_groups(e.selection_set, <<>>)]
       ELSE get_next_selection(e, cur, new_selection, m, direction)

\* The transaction get_next_selection finds for every selection.
edit_transactions(e, m, direction) ==
    LET found(sel) ==
            get_next_selection(e, sel,
                get_selection_(e.text, sel, m, direction, e.cursor_direction),
                m, direction)
    IN map_groups(e, found)

replace_faultlessly(e, m, direction) ==
    LET rs == edit_transactions(e, m, direction)
    IN IF \E i \in 1..Len(rs) : ~rs[i].ok THEN Panic(e)
       ELSE apply_edit_transaction(e, "NewEdit",
                merge(e.selection_set, [i \in 1..Len(rs) |-> rs[i].tx]))

\* exchange that swaps with the next selection whatever the direction.
exchange_forward_only(e, direction) ==
    replace_faultlessly(e, e.selection_set.mode, "Forward")

exchange(e, direction) == replace_faultlessly(e, e.selection_set.mode, direction)

\* ----------------------------------------------------------- key dispatch
CtrlKeys == {"C-a", "C-v", "C-y", "C-z"}
UniversalKeys == {"Left", "Right"} \cup CtrlKeys

\* KeyEvent.code: the key without its modifiers.
key_code(key) ==
    CASE key = "C-a" -> "a"
      [] key = "C-v" -> "v"
      [] key = "C-y" -> "y"
      [] key = "C-z" -> "z"
      [] OTHER -> key

\* KeyCode::Char(_)
is_char(code) == code \notin {"Left", "Right", "Esc", "Backspace", "Enter"}

handle_universal_key(e, key) ==
    CASE key = "Left"  -> move_left(e)
      [] key = "Right" -> move_right(e)
      [] key = "C-a"   -> select_all(e)
      [] key = "C-v"   -> paste(e)
      [] key = "C-y"   -> redo(e)
      [] key = "C-z"   -> undo(e)

\* The keys of handle_normal_mode the model follows.
NormalKeys == {"a", "b", "c", "d", "f", "F", "h", "i", "j", "J", "o", "r", "t", "x", "X",
               "y", "z", "0", "Esc", "Backspace"}

handle_normal_mode(e, key) ==
    LET code == key_code(key) IN
    CASE code = "a" -> add_selection(e)
      [] code = "b" -> select_backward(e)
      [] code = "c" -> select(e, "Character", "Forward")
      [] code = "d" -> delete_current_selection(e)
      [] code = "f" -> move_selection(e, "Forward")
      [] code = "F" -> move_selection(e, "Backward")
      [] code = "h" -> toggle_highlight_mode(e)
      [] code = "i" -> enter_insert_mode(e)
      [] code = "j" -> jump(e, "Forward")
      [] code = "J" -> jump(e, "Backward")
      [] code = "o" -> change_cursor_direction(e)
      [] code = "r" -> replace(e)
      [] code = "t" -> select_token(e, "Forward")
      [] code = "x" -> exchange(e, "Forward")
      [] code = "X" -> exchange(e, "Backward")
      [] code = "y" -> yank_current_selection(e)
      [] code = "z" -> align_cursor_to_center(e)
      [] code = "0" -> reset(e)
      [] code = "Backspace" -> change(e)
      [] OTHER -> e

\* The character keys typed in Insert mode: KeyCode::Char(c) inserts c.
CharKeys == {"a", "E"}
InsertKeys == {"Esc", "Backspace", "Enter"} \cup CharKeys

handle_insert_mode(e, key) ==
    LET code == key_code(key) IN
    CASE code = "Esc" -> enter_normal_mode(e)
      [] code = "Backspace" -> backspace(e)
      [] code = "Enter" -> insert(e, <<"\n">>)
      [] is_char(code) -> insert(e, <<code>>)
      [] OTHER -> e

\* The keys of handle_jump_mode the model follows: Esc, the two keys that jump
\* on, and the first labels.
JumpKeys == {"Esc", "j", "J", "a", "0", "A", "1"}

\* Mode::Jump holds its jumps; any other mode holds none.
leave_jump_mode(e) == [e EXCEPT !.mode = "Normal", !.jumps = <<>>]

\* handle_jump_mode that moves the primary to the jump and keeps the secondary
\* selections.
handle_jump_mode_keeping_secondary(e, key) ==
    LET code == key_code(key) IN
    CASE code = "Esc" -> leave_jump_mode(e)
      [] code = "j" ->
            IF e.jumps # <<>>
            THEN jump_from_selection(e, "Forward", last_jump(e.jumps).selection)
            ELSE e
      [] code = "J" ->
            IF e.jumps # <<>>
            THEN jump_from_selection(e, "Backward", first_jump(e.jumps).selection)
            ELSE e
      [] code \in {e.jumps[i].character : i \in 1..Len(e.jumps)} ->
            LET i == CHOOSE i \in 1..Len(e.jumps) : e.jumps[i].character = code
                e1 == update_selection_set(e,
                          [e.selection_set EXCEPT !.primary =
                              Selection(e.jumps[i].selection.range, @.yanked_text)])
            IN leave_jump_mode(e1)
      [] OTHER -> e

\* handle_jump_mode that returns to Normal mode on a key that labels no jump.
handle_jump_mode_leaving(e, key) ==
    LET code == key_code(key) IN
    CASE code = "Esc" -> leave_jump_mode(e)
      [] code = "j" ->
            IF e.jumps # <<>>
            THEN jump_from_selection(e, "Forward", last_jump(e.jumps).selection)
            ELSE e
      [] code = "J" ->
            IF e.jumps # <<>>
            THEN jump_from_selection(e, "Backward", first_jump(e.jumps).selection)
            ELSE e
      [] code \in {e.jumps[i].character : i \in 1..Len(e.jumps)} ->
            LET i == CHOOSE i \in 1..Len(e.jumps) :
                        /\ e.jumps[i].character = code
                        /\ \A k \in 1..(i - 1) : e.jumps[k].character # code
                e1 == update_selection_set(e,
                          [primary |-> Selection(e.jumps[i].selection.range,
                                                 e.selection_set.primary.yanked_text),
                           secondary |-> <<>>,
                           mode |-> e.selection_set.mode])
            IN leave_jump_mode(e1)
      [] OTHER -> leave_jump_mode(e)

handle_jump_mode(e, key) ==
    LET code == key_code(key) IN
    CASE code = "Esc" -> leave_jump_mode(e)
      [] code = "j" ->
            IF e.jumps # <<>>
            THEN jump_from_selection(e, "Forward", last_jump(e.jumps).selection)
            ELSE e
      [] code = "J" ->
            IF e.jumps # <<>>
            THEN jump_from_selection(e, "Backward", first_jump(e.jumps).selection)
            ELSE e
      [] code \in {e.jumps[i].character : i \in 1..Len(e.jumps)} ->
            LET i == CHOOSE i \in 1..Len(e.jumps) :
                        /\ e.jumps[i].character = code
                        /\ \A k \in 1..(i - 1) : e.jumps[k].character # code
                e1 == update_selection_set(e,
                          [primary |-> Selection(e.jumps[i].selection.range,
                                                 e.selection_set.primary.yanked_text),
                           secondary |-> <<>>,
                           mode |-> e.selection_set.mode])
            IN leave_jump_mode(e1)
      [] OTHER -> e

\* handle_key_event without the universal table: every key goes to the mode.
handle_key_event_without_universal(e, key) ==
    IF e.mode = "Normal" THEN handle_normal_mode(e, key)
    ELSE IF e.mode = "Insert" THEN handle_insert_mode(e, key)
    ELSE handle_jump_mode(e, key)

handle_key_event(e, key) ==
    IF key \in UniversalKeys THEN handle_universal_key(e, key)
    ELSE IF e.mode = "Normal" THEN handle_normal_mode(e, key)
    ELSE IF e.mode = "Insert" THEN handle_insert_mode(e, key)
    ELSE handle_jump_mode(e, key)

\* Editor::handle_mouse_event: the arm of the left button has no statement, its
\* call of set_cursor_position is commented out, so the row and the column of
\* the event are not read.
handle_mouse_event(e, kind) ==
    CASE kind = "ScrollUp" -> apply_scroll(e, -1)
      [] kind = "ScrollDown" -> apply_scroll(e, 1)
      [] kind = "DownLeft" -> e
      [] OTHER -> e

\* ------------------------------------------------------------ transitions
\* The viewport heights set_dimension is called with.
Heights == {0, 4}

InitTexts == UNION {[1..n -> CharKeys] : n \in 0..MaxInitLen}

\* ------------------------------------------------- comparing completions
\* CompletionItem: the fields an ordering could look at.
Items == [label : {"a", "b"}, sort_text : {None, Some("a")}]

\* No comparison is running.
Idle == [items |-> <<>>, stack |-> <<>>, returned |-> None, aborted |-> FALSE]

\* A call of cmp or partial_cmp on the stack: at its entry, or waiting for the
\* call it has made.
Frame(fn) == [fn |-> fn, pc |-> "entry"]

top_frame == comparison.stack[Len(comparison.stack)]

\* The function on top of the stack calls fn: it waits, fn starts.
call(fn) ==
    [comparison EXCEPT
        !.stack = Append([@ EXCEPT ![Len(@)].pc = "called"], Frame(fn))]

\* The function on top of the stack returns v to its caller.
return_to_caller(v) ==
    [comparison EXCEPT !.stack = SubSeq(@, 1, Len(@) - 1), !.returned = Some(v)]

\* Editor::new / Editor::from_config
New(t) ==
    /\ text = t
    /\ mode = "Normal"
    /\ jumps = <<>>
    /\ selection_set = [primary |-> Selection(Range(0, 0), None),
                        secondary |-> <<>>, mode |-> "Custom"]
    /\ selection_history = <<>>
    /\ cursor_direction = "Start"
    /\ undo_edits = <<>>
    /\ redo_edits = <<>>
    /\ scroll_offset = 0
    /\ dimension = 0
    /\ panicked = FALSE
    /\ last = "new"

Init == history_followed = FALSE /\ comparison = Idle /\ \E t \in InitTexts : New(t)

\* The part of the state space the model explores.
WithinBounds(n) ==
    /\ Len(n.text) <= (IF Len(text) > MaxTestLen THEN MaxJumpLen
                       ELSE IF Len(text) > MaxLen THEN MaxTestLen ELSE MaxLen)
    /\ Len(n.undo_edits) <= MaxUndo
    /\ Len(selections_of(n.selection_set)) <= MaxSelections

\* The selection history is part of the state where history_followed is set;
\* elsewhere the model does not follow it and the handlers start from an empty
\* one.
Install(n) ==
    /\ text' = n.text
    /\ mode' = n.mode
    /\ jumps' = n.jumps
    /\ selection_set' = n.selection_set
    /\ selection_history' = IF history_followed THEN n.selection_history ELSE <<>>
    /\ history_followed' = history_followed
    /\ comparison' = comparison
    /\ cursor_direction' = n.cursor_direction
    /\ undo_edits' = n.undo_edits
    /\ redo_edits' = n.redo_edits
    /\ scroll_offset' = n.scroll_offset
    /\ dimension' = n.dimension
    /\ panicked' = n.panicked

\* A handler either runs to completion or panics; a panic ends the editor.
Commit(n, op) ==
    /\ ~n.unspecified
    /\ last' = op
    /\ IF n.panicked
       THEN /\ panicked' = TRUE
            /\ UNCHANGED <<text, mode, jumps, selection_set, selection_history,
                           history_followed, comparison, cursor_direction,
                           undo_edits, redo_edits, scroll_offset, dimension>>
       ELSE WithinBounds(n) /\ Install(n)

Handle(key, op) == ~panicked /\ Commit(handle_key_event(Editor, key), op)

\* The step of a handler that has produced the editor n.
Do(n, op) == ~panicked /\ Commit(n, op)

\* Every key action below takes the arm handle_key_event reaches for its key
\* in the mode of its guard.

\* Universal keys (any mode)
Left == Do(move_left(Editor), "move_left")
Right == Do(move_right(Editor), "move_right")
SelectAll == Do(select_all(Editor), "select_all")
Paste == Do(paste(Editor), "paste")
Redo == Do(redo(Editor), "redo")
Undo == Do(undo(Editor), "undo")

\* Normal mode
AddSelection == mode = "Normal" /\ Do(add_selection(Editor), "add_selection")
SelectCharacter ==
    mode = "Normal" /\ Do(select(Editor, "Character", "Forward"), "select_character")
Delete == mode = "Normal" /\ Do(delete_current_selection(Editor), "delete")
MoveSelectionForward ==
    mode = "Normal" /\ Do(move_selection(Editor, "Forward"), "move_selection")
MoveSelectionBackward ==
    mode = "Normal" /\ Do(move_selection(Editor, "Backward"), "move_selection")
ToggleHighlightMode == mode = "Normal" /\ Handle("h", "toggle_highlight_mode")
EnterInsertMode == mode = "Normal" /\ Do(enter_insert_mode(Editor), "enter_insert_mode")
ChangeCursorDirection ==
    mode = "Normal" /\ Do(change_cursor_direction(Editor), "change_cursor_direction")
Replace == mode = "Normal" /\ Do(replace(Editor), "replace")
SelectToken == mode = "Normal" /\ Do(select_token(Editor, "Forward"), "select_token")
ExchangeForward == mode = "Normal" /\ Do(exchange(Editor, "Forward"), "exchange")
ExchangeBackward == mode = "Normal" /\ Do(exchange(Editor, "Backward"), "exchange")
SelectBackward == mode = "Normal" /\ Do(select_backward(Editor), "select_backward")
Yank == mode = "Normal" /\ Do(yank_current_selection(Editor), "yank")
AlignCursorToCenter ==
    mode = "Normal" /\ Do(align_cursor_to_center(Editor), "align_cursor_to_center")
Reset == mode = "Normal" /\ Do(reset(Editor), "reset")
Change == mode = "Normal" /\ Do(change(Editor), "change")

\* Jump mode
JumpForward == mode = "Normal" /\ Do(jump(Editor, "Forward"), "jump")
JumpBackward == mode = "Normal" /\ Do(jump(Editor, "Backward"), "jump")
JumpKey ==
    mode = "Jump" /\ \E key \in JumpKeys : Do(handle_jump_mode(Editor, key), "jump_key")

\* Insert mode
EnterNormalMode == mode = "Insert" /\ Do(enter_normal_mode(Editor), "enter_normal_mode")
Backspace == mode = "Insert" /\ Do(backspace(Editor), "backspace")
InsertNewline == mode = "Insert" /\ Do(insert(Editor, <<"\n">>), "insert")
InsertChar == mode = "Insert" /\ \E c \in CharKeys : Do(insert(Editor, <<c>>), "insert")

\* Mouse wheel
ScrollUp ==
    ~panicked /\ Commit(handle_mouse_event(Editor, "ScrollUp"), "scroll")
ScrollDown ==
    /\ ~panicked
    /\ scroll_offset < MaxScroll
    /\ Commit(handle_mouse_event(Editor, "ScrollDown"), "scroll")

\* Editor::set_dimension
SetDimension ==
    /\ ~panicked
    /\ \E h \in Heights : Commit([Editor EXCEPT !.dimension = h], "set_dimension")

\* Typing with one or several cursors, and undo/redo.
Next ==
    \/ SelectCharacter \/ AddSelection \/ EnterInsertMode
    \/ InsertChar \/ Backspace \/ Undo \/ Redo

Spec == Init /\ [][Next]_vars

\* All seven edit commands, with yank to feed paste and replace.  The undo
\* stack is followed one entry less deep than under Spec.
Shallow(A) == A /\ Len(undo_edits') < MaxUndo

NextEdit ==
    \/ Shallow(SelectCharacter) \/ Shallow(AddSelection)
    \/ Shallow(EnterInsertMode) \/ Shallow(InsertChar) \/ Shallow(Backspace)
    \/ Shallow(Undo) \/ Shallow(Redo) \/ Shallow(Yank) \/ Shallow(Paste)
    \/ Shallow(Replace) \/ Shallow(Delete) \/ Shallow(Change)
    \/ Shallow(ExchangeForward)

SpecEdit == Init /\ [][NextEdit]_vars

\* The buffer of the tests of engine.rs: fn main() { let x = 1; }
main_text ==
    <<"f", "n", " ", "m", "a", "i", "n", "(", ")", " ", "{", " ", "l", "e", "t",
      " ", "x", " ", "=", " ", "1", ";", " ", "}">>

InitToken == history_followed = FALSE /\ comparison = Idle /\ New(main_text)

\* Token selection, yank and paste on the buffer of the tests.
NextToken ==
    \/ Shallow(SelectToken) \/ Shallow(Yank) \/ Shallow(Paste)

SpecToken == InitToken /\ [][NextToken]_vars

\* The texts of up to MaxInitLen characters and line breaks.
ScrollTexts == UNION {[1..n -> {"a", "\n"}] : n \in 0..MaxInitLen}

InitScroll == history_followed = FALSE /\ comparison = Idle /\ \E t \in ScrollTexts : New(t)

\* Moving the caret over several lines in a viewport, and the mouse wheel.
NextScroll ==
    \/ SetDimension \/ ScrollUp \/ ScrollDown
    \/ EnterInsertMode \/ EnterNormalMode \/ Shallow(InsertNewline)
    \/ Left \/ Right \/ SelectAll \/ SelectCharacter \/ Undo

SpecScroll == InitScroll /\ [][NextScroll]_vars

\* The universal keys in the three modes, with the keys that change mode and
\* delete and undo, which fill the yanked text and the two stacks.
NextKeys ==
    \/ Shallow(SelectCharacter) \/ Shallow(JumpForward) \/ Shallow(JumpBackward)
    \/ Shallow(JumpKey) \/ Shallow(EnterInsertMode) \/ Shallow(EnterNormalMode)
    \/ Shallow(Left) \/ Shallow(Right)
    \/ Shallow(SelectAll) \/ Shallow(Delete) \/ Shallow(Undo)

SpecKeys == Init /\ [][NextKeys]_vars

\* A line of MaxJumpLen letters.
jump_text == [i \in 1..MaxJumpLen |-> "a"]

InitJump == history_followed = FALSE /\ comparison = Idle /\ New(jump_text)

\* Jump mode over the characters of a long line, with a second cursor and yanked
\* text for the jump to clear and to keep.
NextJump ==
    \/ SelectCharacter \/ MoveSelectionForward \/ AddSelection \/ Yank
    \/ JumpForward \/ JumpBackward \/ JumpKey

SpecJump == InitJump /\ [][NextJump]_vars

InitHistory == history_followed = TRUE /\ comparison = Idle /\ \E t \in InitTexts : New(t)

Recent(A) == A /\ Len(selection_history') <= MaxHistory

\* The selection commands and the edit commands side by side, with the
\* selection history followed MaxHistory entries deep.
NextHistory ==
    \/ Recent(SelectCharacter) \/ Recent(MoveSelectionForward)
    \/ Recent(AddSelection) \/ Recent(ChangeCursorDirection)
    \/ Recent(SelectBackward) \/ Recent(JumpForward) \/ Recent(JumpKey)
    \/ Recent(Shallow(Delete)) \/ Recent(Shallow(Undo)) \/ Recent(Shallow(Redo))

SpecHistory == InitHistory /\ [][NextHistory]_vars

Long(A) == A /\ Len(selection_history') <= MaxHistoryLen

\* Selection commands alone, with the selection history followed
\* MaxHistoryLen entries deep.
NextSelect ==
    \/ Long(SelectCharacter) \/ Long(SelectBackward)

SpecSelect == InitHistory /\ [][NextSelect]_vars

\* The texts of up to MaxInitLen + 1 letters and line breaks.
ExchangeTexts == UNION {[1..n -> Chars] : n \in 0..MaxInitLen + 1}

InitExchange == history_followed = FALSE /\ comparison = Idle /\ \E t \in ExchangeTexts : New(t)

\* Exchange in both directions over characters and line breaks, also after delete
\* has emptied the selection.
NextExchange ==
    \/ SelectCharacter \/ AddSelection \/ MoveSelectionForward \/ Delete
    \/ ExchangeForward \/ ExchangeBackward

SpecExchange == InitExchange /\ [][NextExchange]_vars

\* The variables of the editor, which a comparison leaves alone.
editor_vars ==
    <<text, mode, jumps, selection_set, selection_history, cursor_direction,
      undo_edits, redo_edits, scroll_offset, dimension, panicked, last,
      history_followed>>

\* A caller (a sort, an operator <) compares two items through cmp or through
\* partial_cmp.
Compare ==
    /\ comparison = Idle
    /\ \E a \in Items, b \in Items, fn \in {"cmp", "partial_cmp"} :
           comparison' = [Idle EXCEPT !.items = <<a, b>>, !.stack = <<Frame(fn)>>]
    /\ UNCHANGED editor_vars

\* PartialOrd::partial_cmp: Some(self.cmp(other))
partial_cmp ==
    /\ ~comparison.aborted
    /\ comparison.stack # <<>>
    /\ top_frame.fn = "partial_cmp"
    /\ IF top_frame.pc = "entry"
       THEN Len(comparison.stack) < MaxStack /\ comparison' = call("cmp")
       ELSE comparison' = return_to_caller(Some(comparison.returned[1]))
    /\ UNCHANGED editor_vars

\* Ord::cmp: self.partial_cmp(other).unwrap_or(Ordering::Equal)
cmp ==
    /\ ~comparison.aborted
    /\ comparison.stack # <<>>
    /\ top_frame.fn = "cmp"
    /\ IF top_frame.pc = "entry"
       THEN Len(comparison.stack) < MaxStack /\ comparison' = call("partial_cmp")
       ELSE comparison' =
               return_to_caller(IF comparison.returned[1] = None THEN "Equal"
                                ELSE comparison.returned[1][1])
    /\ UNCHANGED editor_vars

\* A call with the stack exhausted: the process is aborted.
StackOverflow ==
    /\ ~comparison.aborted
    /\ Len(comparison.stack) = MaxStack
    /\ top_frame.pc = "entry"
    /\ comparison' = [comparison EXCEPT !.aborted = TRUE]
    /\ UNCHANGED editor_vars

InitCompare == history_followed = FALSE /\ comparison = Idle /\ New(<<>>)

NextCompare == Compare \/ partial_cmp \/ cmp \/ StackOverflow

\* A comparison that has started keeps running: nothing else is scheduled
\* inside a call of cmp.
SpecCompare == InitCompare /\ [][NextCompare]_vars /\ WF_vars(NextCompare)

\* -------------------------------------------------------------- properties
front(s) == SubSeq(s, 1, Len(s) - 1)

\* A new user edit command ran to completion in this step.
NewEditStep ==
    /\ \/ InsertChar \/ Backspace \/ Paste \/ Replace \/ Delete \/ Change
       \/ ExchangeForward
    /\ ~panicked'

\* C1: every new user edit command (insert, backspace, paste, replace, delete,
\* change, exchange) leaves the redo stack empty whatever it held before; undo
\* only adds to the redo stack and redo only takes its top entry.
C1_RedoClearedOnlyByNewEdit ==
    [][/\ NewEditStep => redo_edits' = <<>>
       /\ (Undo /\ ~panicked') => SubSeq(redo_edits', 1, Len(redo_edits)) = redo_edits
       /\ (Redo /\ ~panicked' /\ redo_edits # <<>>) => redo_edits' = front(redo_edits)
      ]_vars

\* A state with something to redo in which delete runs and empties the redo stack.
C1_Witness ==
    /\ redo_edits # <<>>
    /\ mode = "Normal"
    /\ ~handle_key_event(Editor, "d").panicked
    /\ Len(handle_key_event(Editor, "d").undo_edits) = Len(undo_edits) + 1
    /\ handle_key_event(Editor, "d").redo_edits = <<>>

\* C2: undo with a non-empty undo stack pops exactly one transaction, applies
\* its edits to the text and pushes exactly one transaction onto the redo
\* stack; redo does the mirror image; the total |undo| + |redo| is conserved.
C2_UndoRedoMoveOneEntry ==
    [][/\ (Undo /\ ~panicked' /\ undo_edits # <<>>) =>
            /\ undo_edits' = front(undo_edits)
            /\ Len(redo_edits') = Len(redo_edits) + 1
            /\ front(redo_edits') = redo_edits
            /\ text' = apply_edits(text, edits(undo_edits[Len(undo_edits)])).text
       /\ (Redo /\ ~panicked' /\ redo_edits # <<>>) =>
            /\ redo_edits' = front(redo_edits)
            /\ Len(undo_edits') = Len(undo_edits) + 1
            /\ front(undo_edits') = undo_edits
            /\ text' = apply_edits(text, edits(redo_edits[Len(redo_edits)])).text
       /\ ((Undo \/ Redo) /\ ~panicked') =>
            Len(undo_edits') + Len(redo_edits') = Len(undo_edits) + Len(redo_edits)
      ]_vars

\* A redo has just run while both stacks hold entries.
C2_Witness == last = "redo" /\ undo_edits # <<>> /\ redo_edits # <<>>

\* C5: undo with an empty undo stack, and redo with an empty redo stack, change
\* nothing: text (and with it the tree), selection set, mode, scroll offset
\* and both stacks stay as they are.
C5_EmptyHistoryIsNoOp ==
    [][/\ (Undo /\ undo_edits = <<>>) =>
            UNCHANGED <<text, selection_set, mode, scroll_offset, undo_edits,
                        redo_edits, panicked>>
       /\ (Redo /\ redo_edits = <<>>) =>
            UNCHANGED <<text, selection_set, mode, scroll_offset, undo_edits,
                        redo_edits, panicked>>
      ]_vars

\* An undo has just run and nothing is recorded for redo: the undo stack it
\* met was empty.
C5_Witness == last = "undo" /\ redo_edits = <<>> /\ mode = "Insert"

RECURSIVE undo_n(_, _)
\* n undos in a row.
undo_n(e, n) == IF n = 0 THEN e ELSE undo_n(undo(e), n - 1)

RECURSIVE redo_n(_, _)
\* n redos in a row.
redo_n(e, n) == IF n = 0 THEN e ELSE redo_n(redo(e), n - 1)

\* C3: from every reachable state, for every u up to the size of the undo
\* stack, u undos followed by u redos run to completion and give back the
\* text and the selection set the editor had before the first undo.
C3_UndoRedoSymmetry ==
    ~panicked =>
        \A u \in 0..Len(undo_edits) :
            LET r == redo_n(undo_n(Editor, u), u)
            IN /\ ~r.panicked
               /\ ~r.unspecified
               /\ r.text = text
               /\ r.selection_set = selection_set

\* Two transactions are recorded, made with two cursors, and undoing both
\* changes the text and the selection set.
C3_Witness ==
    /\ ~panicked
    /\ Len(undo_edits) = 2
    /\ selection_set.secondary # <<>>
    /\ undo_n(Editor, 2).text # text
    /\ undo_n(Editor, 2).selection_set # selection_set
    /\ undo_n(Editor, 1).text # undo_n(Editor, 2).text

\* The keys that run a new edit command in the given mode.
EditKeys(m) ==
    IF m = "Normal" THEN {"d", "r", "x", "Backspace", "C-v"}
    ELSE IF m = "Insert" THEN CharKeys \cup {"Backspace", "C-v"}
    ELSE {"C-v"}

\* The ranges of a selection set, primary first.
ranges(ss) == [i \in 1..Len(selections_of(ss)) |-> selections_of(ss)[i].range]

C7_SelectionsInBounds ==
    \A i \in 1..Len(selections_of(selection_set)) :
        LET r == selections_of(selection_set)[i].range
        IN 0 <= r.start /\ r.start <= r.end /\ r.end <= len_chars(text)

\* C8: handle_key_event never panics, whatever the mode and the buffer content.
C8_NeverPanics == ~panicked

RECURSIVE without(_, _)
\* The sequence t without the elements at the positions in P.
without(t, P) ==
    IF t = <<>> THEN <<>>
    ELSE without(front(t), P) \o (IF Len(t) \in P THEN <<>> ELSE <<t[Len(t)]>>)

\* The number of copies typed at or before the copy of selection i: those of
\* the selections that start earlier, or start at the same place and come
\* earlier in the set, and its own.
copies_up_to(sels, i) ==
    Cardinality({j \in 1..Len(sels) :
        \/ sels[j].range.start < sels[i].range.start
        \/ (sels[j].range.start = sels[i].range.start /\ j <= i)})

\* After typing c: the text grew by one character per selection, every
\* selection is an empty caret right after its own copy of c, and the text
\* without the copies is the text before.
InsertedAtEachSelection(c) ==
    LET before == selections_of(selection_set)
        after == selections_of(selection_set')
        carets == {after[i].range.start : i \in 1..Len(after)}
    IN /\ Len(after) = Len(before)
       /\ Len(text') = Len(text) + Len(before)
       /\ \A i \in 1..Len(after) :
              /\ after[i].range.start = after[i].range.end
              /\ after[i].range.start =
                     before[i].range.start + copies_up_to(before, i)
              /\ after[i].range.start \in 1..Len(text')
              /\ text'[after[i].range.start] = c
       /\ without(text', carets) = text

\* C10: typing a character with k >= 1 selections inserts one copy at each
\* selection's range.start (the text grows by k characters) and leaves each
\* selection an empty caret right after its own copy, counted in characters.
C10_InsertAtEachSelection ==
    [][\A c \in CharKeys :
          (mode = "Insert" /\ Handle(c, "insert") /\ ~panicked')
              => InsertedAtEachSelection(c)
      ]_vars

\* The same for the ASCII letter alone, whose length in bytes is its length in
\* characters.
C10_InsertAsciiAtEachSelection ==
    [][(mode = "Insert" /\ Handle("a", "insert") /\ ~panicked'
            /\ \A i \in 1..Len(selections_of(selection_set)) :
                   selections_of(selection_set)[i].range.start <= Len(text))
              => InsertedAtEachSelection("a")
      ]_vars

\* The number of characters deleted at or before the caret of selection i:
\* one for every selection not at position 0 that starts earlier, or starts at
\* the same place and comes earlier in the set, and its own.
deletions_up_to(sels, i) ==
    Cardinality({j \in 1..Len(sels) :
        /\ sels[j].range.start >= 1
        /\ \/ sels[j].range.start < sels[i].range.start
           \/ (sels[j].range.start = sels[i].range.start /\ j <= i)})

\* After Backspace: the character before every caret that is not at 0 is gone,
\* nothing else is, and every selection is an empty caret one position to the
\* left of where it was in the old text (a caret at 0 stays at 0).
DeletedBeforeEachCaret ==
    LET before == selections_of(selection_set)
        after == selections_of(selection_set')
        gone == {before[i].range.start : i \in 1..Len(before)} \ {0}
    IN /\ Len(after) = Len(before)
       /\ text' = without(text, gone)
       /\ \A i \in 1..Len(after) :
              /\ after[i].range.start = after[i].range.end
              /\ after[i].range.start =
                     before[i].range.start - deletions_up_to(before, i)
              /\ before[i].range.start = 0 => after[i].range.start = 0

C12_YankIdempotent ==
    [][(Yank /\ ~panicked') =>
          /\ UNCHANGED <<text, undo_edits, redo_edits, mode>>
          /\ ranges(selection_set') = ranges(selection_set)
          /\ \A i \in 1..Len(selections_of(selection_set')) :
                 LET sel == selections_of(selection_set')[i]
                 IN /\ slice_ok(text, sel.range.start, sel.range.end)
                    /\ sel.yanked_text = Some(slice(text, sel.range.start, sel.range.end))
          /\ yank_current_selection(Editor') = Editor'
      ]_vars

\* Yank has just run with two selections over different characters, each of
\* which now carries its own text.
C12_Witness ==
    /\ last = "yank"
    /\ selection_set.secondary # <<>>
    /\ selection_set.primary.yanked_text = Some(<<"a">>)
    /\ selection_set.secondary[1].yanked_text = Some(<<"E">>)

\* The length of the texts pasted before the one of selection i: those of the
\* selections anchored earlier, or at the same place and earlier in the set.
RECURSIVE pasted_before(_, _, _, _)
pasted_before(sels, cd, i, j) ==
    IF j = 0 THEN 0
    ELSE (IF \/ to_char_index(sels[j], cd) < to_char_index(sels[i], cd)
             \/ (to_char_index(sels[j], cd) = to_char_index(sels[i], cd) /\ j < i)
          THEN Len(sels[j].yanked_text[1]) ELSE 0)
         + pasted_before(sels, cd, i, j - 1)

\* Where the text pasted for selection i lies in the new text.
pasted_range(sels, cd, i) ==
    LET start == to_char_index(sels[i], cd) + pasted_before(sels, cd, i, Len(sels))
    IN Range(start, start + Len(sels[i].yanked_text[1]))

\* After paste with yanked text in every selection: every yanked text stands at
\* its selection's anchor, the text without the pasted parts is the old text,
\* and the selection covers the pasted text (Normal) or is a caret right after
\* it (Insert).
PastedAtEachAnchor ==
    LET before == selections_of(selection_set)
        after == selections_of(selection_set')
        at(i) == pasted_range(before, cursor_direction, i)
        pasted == UNION {at(i).start + 1 .. at(i).end : i \in 1..Len(before)}
    IN /\ Len(after) = Len(before)
       /\ without(text', pasted) = text
       /\ Cardinality(pasted) = Len(text') - Len(text)
       /\ \A i \in 1..Len(before) :
              /\ slice_ok(text', at(i).start, at(i).end)
              /\ slice(text', at(i).start, at(i).end) = before[i].yanked_text[1]
              /\ after[i].range =
                     IF mode = "Insert" THEN Range(at(i).end, at(i).end) ELSE at(i)

all_yanked(ss) ==
    \A i \in 1..Len(selections_of(ss)) : selections_of(ss)[i].yanked_text # None

RECURSIVE run(_, _)
\* The editor after the keys have been handled in turn.
run(e, keys) ==
    IF keys = <<>> THEN e ELSE run(handle_key_event(e, Head(keys)), Tail(keys))

\* The place of the i-th selection when sorted by start (sort_by is stable).
start_rank(sels, i) ==
    1 + Cardinality({j \in 1..Len(sels) :
            \/ sels[j].range.start < sels[i].range.start
            \/ sels[j].range.start = sels[i].range.start /\ j < i})

\* Editor::get_selected_texts: the selected texts in the order of their starts.
get_selected_texts(e) ==
    LET sels == selections_of(e.selection_set)
    IN [k \in 1..Len(sels) |->
           LET i == CHOOSE i \in 1..Len(sels) : start_rank(sels, i) = k
           IN slice(e.text, sels[i].range.start, sels[i].range.end)]

fn_fnmain_text ==
    <<"f", "n", " ", "f", "n", "m", "a", "i", "n", "(", ")", " ", "{", " ", "l",
      "e", "t", " ", "x", " ", "=", " ", "1", ";", " ", "}">>

\* The command sequence leaves the text fn fnmain() { let x = 1; } with fn selected.
YieldsFnFnmain(keys) ==
    LET r == run(Editor, keys)
    IN /\ ~r.panicked
       /\ r.text = fn_fnmain_text
       /\ get_selected_texts(r) = << <<"f", "n">> >>

\* C14 as stated: from a fresh editor on fn main() { let x = 1; }, token-forward,
\* token-forward, yank, token-forward, paste yields fn fnmain() { let x = 1; } with
\* fn selected.
C14_TwoTokensThenYankPaste ==
    New(main_text) => YieldsFnFnmain(<<"t", "t", "y", "t", "C-v">>)

\* C14 amended: from a fresh editor on fn main() { let x = 1; }, token-forward,
\* yank, token-forward, paste yields fn fnmain() { let x = 1; } with fn selected
\* (the first token-forward selects fn, the second main).
C14_YankPaste ==
    New(main_text) => YieldsFnFnmain(<<"t", "y", "t", "C-v">>)

\* The paste of the yanked fn before main has happened.
C14_Witness ==
    /\ last = "paste"
    /\ text = fn_fnmain_text
    /\ selection_set.primary.range = Range(3, 5)
    /\ selection_set.primary.yanked_text = Some(<<"f", "n">>)
    /\ Len(undo_edits) = 1

RECURSIVE grown_before(_, _, _)
\* How much the replacements of the first j selections that stand before
\* selection i (earlier start, or same start and earlier in the set) grow the text.
grown_before(sels, i, j) ==
    IF j = 0 THEN 0
    ELSE (IF \/ sels[j].range.start < sels[i].range.start
             \/ (sels[j].range.start = sels[i].range.start /\ j < i)
          THEN Len(sels[j].yanked_text[1]) - (sels[j].range.end - sels[j].range.start)
          ELSE 0)
         + grown_before(sels, i, j - 1)

\* Where the replacement of selection i lies in the new text.
replaced_range(sels, i) ==
    LET start == sels[i].range.start + grown_before(sels, i, Len(sels))
    IN Range(start, start + Len(sels[i].yanked_text[1]))

\* The positions of a text the selections cover.
covered(rs) == UNION {rs[i].start + 1 .. rs[i].end : i \in 1..Len(rs)}

\* After replace with yanked text in every selection: every selection covers its
\* former yanked text, carries the text it replaced, the text outside the
\* selections is kept, and a second replace restores the text, the text every
\* selection covers and the yanked texts.
ReplacedEachSelection ==
    LET before == selections_of(selection_set)
        after == selections_of(selection_set')
        at == [i \in 1..Len(before) |-> replaced_range(before, i)]
        again == replace(Editor')
    IN /\ Len(after) = Len(before)
       /\ without(text', covered(at)) = without(text, covered(ranges(selection_set)))
       /\ \A i \in 1..Len(before) :
              /\ after[i].range = at[i]
              /\ slice_ok(text', at[i].start, at[i].end)
              /\ slice(text', at[i].start, at[i].end) = before[i].yanked_text[1]
              /\ after[i].yanked_text =
                     Some(slice(text, before[i].range.start, before[i].range.end))
       /\ ~again.panicked /\ ~again.unspecified
       /\ again.text = text
       /\ Len(selections_of(again.selection_set)) = Len(before)
       /\ \A i \in 1..Len(before) :
              LET sel == selections_of(again.selection_set)[i]
              IN /\ sel.yanked_text = before[i].yanked_text
                 /\ slice_ok(again.text, sel.range.start, sel.range.end)
                 /\ slice(again.text, sel.range.start, sel.range.end) =
                        slice(text, before[i].range.start, before[i].range.end)

\* C15: replace swaps each selection's text with its yanked text: the selection
\* then covers the inserted text and its yanked text is the replaced text;
\* replacing a second time restores the buffer and the selected text.
C15_ReplaceSwaps ==
    [][(Replace /\ ~panicked' /\ all_yanked(selection_set)) => ReplacedEachSelection]_vars

\* Replace has just swapped two selections with different yanked texts in one
\* transaction, and at least one text differs from what it replaced.
C15_Witness ==
    /\ ~panicked
    /\ last = "replace"
    /\ selection_set.secondary # <<>>
    /\ Len(edits(undo_edits[Len(undo_edits)])) = 2
    /\ \E i \in 1..2 :
           LET sel == selections_of(selection_set)[i]
           IN /\ sel.yanked_text # None
              /\ slice_clamped(text, sel.range.start, sel.range.end) # sel.yanked_text[1]
              /\ Len(sel.yanked_text[1]) # sel.range.end - sel.range.start

\* The selection modes whose selections follow one another in the text.
contiguous(m) ==
    m \in {"Word", "Line", "Token", "NamedNode", "SiblingNode", "Match", "Character"}

\* Delete of a single non-empty selection: in a contiguous mode with a next
\* selection the text up to the next selection is removed and the next
\* selection is selected; otherwise only the selection is removed.
DeleteKills ==
    LET sel == selection_set.primary
        next == get_selection_(text, sel, selection_set.mode, "Forward",
                               cursor_direction).range
    IN IF contiguous(selection_set.mode) /\ next.start >= sel.range.end
       THEN /\ text' = slice(text, 0, sel.range.start)
                            \o slice(text, next.start, Len(text))
            /\ selection_set'.primary.range =
                   Range(sel.range.start, sel.range.start + (next.end - next.start))
       ELSE text' = slice(text, 0, sel.range.start)
                        \o slice(text, sel.range.end, Len(text))

\* C16: delete in a contiguous mode removes the selection and the gap up to the
\* next selection and leaves the next selection selected; in any other mode it
\* removes only the selection.
C16_DeleteKills ==
    [][(/\ Delete /\ ~panicked'
        /\ selection_set.secondary = <<>>
        /\ selection_set.primary.range.start < selection_set.primary.range.end
        /\ slice_ok(text, selection_set.primary.range.start,
                    selection_set.primary.range.end))
       => DeleteKills]_vars

RECURSIVE removed_before(_, _, _)
\* The number of characters of the first j selections that stand before
\* selection i (earlier start, or same start and earlier in the set).
removed_before(sels, i, j) ==
    IF j = 0 THEN 0
    ELSE (IF \/ sels[j].range.start < sels[i].range.start
             \/ (sels[j].range.start = sels[i].range.start /\ j < i)
          THEN sels[j].range.end - sels[j].range.start ELSE 0)
         + removed_before(sels, i, j - 1)

\* After change: the text of every selection is gone, the editor is in Insert
\* mode, every selection is an empty caret where its text began and carries
\* that text as its yanked text.
ChangedEachSelection ==
    LET before == selections_of(selection_set)
        after == selections_of(selection_set')
    IN /\ mode' = "Insert"
       /\ text' = without(text, covered(ranges(selection_set)))
       /\ Len(after) = Len(before)
       /\ \A i \in 1..Len(before) :
              LET caret == before[i].range.start - removed_before(before, i, Len(before))
              IN /\ after[i].range = Range(caret, caret)
                 /\ after[i].yanked_text =
                        Some(slice(text, before[i].range.start, before[i].range.end))

\* C17: change deletes the text of every selection and enters Insert mode; each
\* selection becomes an empty caret where its deleted text began and its yanked
\* text is the deleted text.
C17_ChangeDeletesAndInserts ==
    [][(Change /\ ~panicked') => ChangedEachSelection]_vars

\* Change has just deleted the texts of two selections, the second of which
\* stood after the first, in one transaction.
C17_Witness ==
    /\ ~panicked
    /\ last = "change"
    /\ mode = "Insert"
    /\ selection_set.secondary # <<>>
    /\ Len(edits(undo_edits[Len(undo_edits)])) = 2
    /\ selection_set.primary.yanked_text = Some(<<"a">>)
    /\ selection_set.secondary[1].yanked_text = Some(<<"E">>)
    /\ selection_set.primary.range = Range(0, 0)
    /\ selection_set.secondary[1].range = Range(0, 0)

\* Rope::len_lines
len_lines(t) == count_newlines(t) + 1

\* The cursor row lies in the rows scroll_offset .. scroll_offset + height - 2.
row_in_view(row, offset, height) == offset <= row /\ row <= offset + height - 2

\* A key command has changed the primary selection or the row of the caret.
CaretCommand ==
    /\ last' \notin {"scroll", "set_dimension"}
    /\ \/ selection_set'.primary.range # selection_set.primary.range
       \/ cursor_row(Editor') # cursor_row(Editor)

\* C18: after every command that changes the primary selection or the caret,
\* in a viewport of at least two rows, the cursor row is visible; the offset is
\* max(0, cursor_row - (height-2)/2) when the row was outside the view and
\* unchanged when it was inside.
C18_CursorRowVisible ==
    [][(CaretCommand /\ ~panicked' /\ dimension >= 2) =>
          LET row == cursor_row(Editor')
          IN /\ row_in_view(row, scroll_offset', dimension)
             /\ scroll_offset' =
                    IF row_in_view(row, scroll_offset, dimension) THEN scroll_offset
                    ELSE Max(0, row - ((dimension - 2) \div 2))]_vars

\* C19: in every reachable state 0 <= scroll_offset <= max(0, lines - 1); the
\* mouse wheel stops at offset 0 and at the last line.
C19_ScrollWithinLines ==
    /\ 0 <= scroll_offset
    /\ scroll_offset <= Max(0, len_lines(text) - 1)

\* The handler of the current mode.
handle_mode(e, key) ==
    CASE e.mode = "Normal" -> handle_normal_mode(e, key)
      [] e.mode = "Insert" -> handle_insert_mode(e, key)
      [] e.mode = "Jump" -> handle_jump_mode(e, key)

C21_MalformedEditAborts ==
    ~panicked =>
        \A key \in EditKeys(mode) \cup {"C-z", "C-y"} :
            LET r == handle_key_event(Editor, key)
            IN r.panicked =>
                  /\ r.text = text
                  /\ r.selection_set = selection_set
                  /\ r.undo_edits = undo_edits
                  /\ r.redo_edits = redo_edits

\* No selection has a candidate to swap with in the direction: every transaction
\* get_next_selection returns is the empty one.
NoSwap(e, direction) ==
    LET rs == edit_transactions(e, e.selection_set.mode, direction)
    IN \A i \in 1..Len(rs) : rs[i].ok /\ rs[i].tx.action_group = <<>>

\* C22: when exchange finds no legal swap for any selection, the command is a
\* no-op: text, selection set, undo stack and redo stack are what they were.
C22_NoSwapIsNoOp ==
    (~panicked /\ mode = "Normal") =>
        \A direction \in {"Forward", "Backward"} :
            NoSwap(Editor, direction) =>
                LET r == exchange(Editor, direction)
                IN /\ r.text = text
                   /\ r.selection_set = selection_set
                   /\ r.undo_edits = undo_edits
                   /\ r.redo_edits = redo_edits

\* Every selection has found a neighbour to swap with.
FoundSwap(e, direction) ==
    LET rs == edit_transactions(e, e.selection_set.mode, direction)
    IN \A i \in 1..Len(rs) : rs[i].ok /\ rs[i].tx.action_group # <<>>

RECURSIVE neighbour(_, _, _, _)
\* The first selection from next on, stepping in the direction, whose text is
\* not blank.
neighbour(e, next, m, direction) ==
    IF ~is_blank(slice(e.text, next.range.start, next.range.end)) THEN next.range
    ELSE neighbour(e, get_selection_(e.text, next, m, direction, e.cursor_direction),
                   m, direction)

\* The neighbour of selection i.
neighbour_of(e, i, direction) ==
    LET sel == selections_of(e.selection_set)[i]
        m == e.selection_set.mode
    IN neighbour(e, get_selection_(e.text, sel, m, direction, e.cursor_direction),
                 m, direction)

\* The text t with the texts of the ranges a and b swapped, nothing else changed.
swapped(t, a, b) ==
    LET x == IF a.end <= b.start THEN a ELSE b
        y == IF a.end <= b.start THEN b ELSE a
    IN slice(t, 0, x.start) \o slice(t, y.start, y.end) \o slice(t, x.end, y.start)
       \o slice(t, x.start, x.end) \o slice(t, y.end, Len(t))

RECURSIVE swapped_each(_, _, _)
\* The text with the first i selections swapped with their neighbours.
swapped_each(e, direction, i) ==
    IF i = 0 THEN e.text
    ELSE swapped(swapped_each(e, direction, i - 1),
                 selections_of(e.selection_set)[i].range, neighbour_of(e, i, direction))

\* Where the text of range a lies after it has been swapped with that of b.
moved_range(a, b) ==
    IF a.end <= b.start THEN Range(b.end - (a.end - a.start), b.end)
    ELSE Range(b.start, b.start + (a.end - a.start))

\* After an exchange in which every selection found a neighbour: the text is the
\* old one with every selection and its neighbour swapped, and every selection
\* covers the moved copy of its text and keeps its yanked text.
ExchangedEachSelection(direction) ==
    LET before == selections_of(selection_set)
        after == selections_of(selection_set')
    IN /\ text' = swapped_each(Editor, direction, Len(before))
       /\ Len(after) = Len(before)
       /\ selection_set'.mode = selection_set.mode
       /\ \A i \in 1..Len(before) :
              /\ after[i].range =
                     moved_range(before[i].range, neighbour_of(Editor, i, direction))
              /\ after[i].yanked_text = before[i].yanked_text
              /\ slice_ok(text', after[i].range.start, after[i].range.end)
              /\ slice(text', after[i].range.start, after[i].range.end) =
                     slice(text, before[i].range.start, before[i].range.end)

Completed(r) == ~r.panicked /\ ~r.unspecified

NoneEmpty(ss) ==
    \A i \in 1..Len(selections_of(ss)) :
        selections_of(ss)[i].range.start < selections_of(ss)[i].range.end

C25_JumpKeyInstallsJump ==
    (~panicked /\ mode = "Jump") =>
        \A i \in 1..Len(jumps) :
            LET r == handle_key_event(Editor, jumps[i].character)
            IN /\ r.mode = "Normal"
               /\ r.selection_set =
                      [primary |-> Selection(jumps[i].selection.range,
                                             selection_set.primary.yanked_text),
                       secondary |-> <<>>,
                       mode |-> selection_set.mode]

\* Jump mode holds several jumps while there are two selections and the primary
\* carries yanked text.
C25_Witness ==
    /\ ~panicked
    /\ mode = "Jump"
    /\ Len(jumps) > 1
    /\ selection_set.secondary # <<>>
    /\ selection_set.primary.yanked_text # None
    /\ jumps[2].selection.range # selection_set.primary.range

\* The characters a jump may be labelled with.
LabelAlphabet ==
    ({LowerCase[i] : i \in 1..Len(LowerCase)} \cup {UpperCase[i] : i \in 1..Len(UpperCase)}
        \cup {Digits[i] : i \in 1..Len(Digits)} \cup {",", "."}) \ {"j", "J"}

\* The jumps js generated from the selection start in a direction: at most 64,
\* with distinct labels of the alphabet, each selection differing from the
\* candidate before it, and ending where a step no longer moves unless the
\* labels ran out.
GoodJumps(js, start, direction) ==
    LET step(sel) == get_selection_(text, sel, selection_set.mode, direction,
                                    cursor_direction)
        before(i) == IF i = 1 THEN start ELSE js[i - 1].selection
    IN /\ Len(js) <= 64
       /\ \A i \in 1..Len(js) : js[i].character \in LabelAlphabet
       /\ \A i \in 1..Len(js) : \A k \in 1..Len(js) :
              i # k => js[i].character # js[k].character
       /\ \A i \in 1..Len(js) :
              /\ js[i].selection # before(i)
              /\ js[i].selection = step(before(i))
       /\ \/ step(before(Len(js) + 1)) = before(Len(js) + 1)
          \/ Len(js) = Cardinality(LabelAlphabet)

\* C26: the jumps generated on entering jump mode, from the primary selection
\* or from the extremum of the jumps shown, are at most 64, are labelled with
\* pairwise distinct characters of a..z, A..Z, 0..9, ',' and '.' other than j
\* and J, each differ from the candidate before, and end at the first step
\* that returns the same selection.
C26_JumpsLabelled ==
    /\ (~panicked /\ mode = "Normal") =>
           \A direction \in {"Forward", "Backward"} :
               GoodJumps(jump(Editor, direction).jumps, selection_set.primary, direction)
    /\ (~panicked /\ mode = "Jump" /\ jumps # <<>>) =>
           /\ GoodJumps(handle_key_event(Editor, "j").jumps,
                        last_jump(jumps).selection, "Forward")
           /\ GoodJumps(handle_key_event(Editor, "J").jumps,
                        first_jump(jumps).selection, "Backward")

\* Jump mode was entered where more selections follow than there are labels:
\* every label is in use and a step from the last jump still moves.
C26_Witness ==
    /\ ~panicked
    /\ mode = "Jump"
    /\ last = "jump"
    /\ Len(jumps) = Cardinality(LabelAlphabet)
    /\ jumps[Len(jumps)].selection.range.end < Len(text)

\* Vec::with_capacity(128): the capacity the selection history is created with.
Capacity == 128

\* C27: the selection history is bounded: after any sequence of selection
\* commands its length does not exceed the capacity of 128 it is created with.
C27_HistoryBounded == Len(selection_history) <= Capacity

\* C28: select_backward pops the history until an entry differs from the current
\* selection set and installs it; when no entry differs the command is a no-op:
\* the selection set and the history are left as they were.
C28_SelectBackwardOrNoOp ==
    (~panicked /\ mode = "Normal") =>
        LET r == handle_key_event(Editor, "b")
            differing == {i \in 1..Len(selection_history) :
                             selection_history[i] # selection_set}
        IN IF differing = {}
           THEN /\ r.selection_set = selection_set
                /\ r.selection_history = selection_history
           ELSE LET i == CHOOSE i \in differing : \A k \in differing : k <= i
                IN /\ r.selection_set = selection_history[i]
                   /\ r.selection_history = SubSeq(selection_history, 1, i - 1)

\* A step of a selection command.
SelectionCommand ==
    \/ SelectCharacter \/ SelectToken \/ MoveSelectionForward \/ MoveSelectionBackward
    \/ SelectBackward \/ AddSelection \/ ChangeCursorDirection
    \/ JumpForward \/ JumpBackward \/ JumpKey

\* A step of an edit command, undo and redo among them, that ran to completion.
EditCommand ==
    /\ \/ InsertChar \/ Backspace \/ Paste \/ Replace \/ Delete \/ Change
       \/ ExchangeForward \/ ExchangeBackward \/ Undo \/ Redo
    /\ ~panicked'

\* C29: selection history and edit history are independent: no selection
\* command changes the text, the undo stack or the redo stack, and no edit
\* command, undo and redo among them, changes the selection history.
C29_HistoriesIndependent ==
    [][/\ SelectionCommand => UNCHANGED <<text, undo_edits, redo_edits>>
       /\ EditCommand => UNCHANGED selection_history
      ]_vars

\* The least range that covers a and b.
union_range(a, b) == Range(Min(a.start, b.start), Max(a.end, b.end))

\* C30: with highlight mode toggled on, a following selection step widens the
\* selection to the union of the anchor (the selection at toggle time) and the
\* new caret selection: after the toggle key and a token step the primary covers
\* the old selection and the token stepped to.
C30_HighlightWidens ==
    (~panicked /\ mode = "Normal" /\ selection_set.mode = "Token") =>
        LET stepped == handle_key_event(Editor, "t")
            widened == run(Editor, <<"h", "t">>)
        IN widened.selection_set.primary.range =
               union_range(selection_set.primary.range,
                           stepped.selection_set.primary.range)

\* Rope::line_to_char: the index of the first character of a line.
line_to_char(t, row) ==
    IF row = 0 THEN 0
    ELSE CHOOSE c \in 1..Len(t) :
            t[c] = "\n" /\ count_newlines(slice(t, 0, c)) = row

\* The length of a line without its line break.
line_len(t, row) ==
    (IF row + 1 < len_lines(t) THEN line_to_char(t, row + 1) - 1 ELSE Len(t))
        - line_to_char(t, row)

\* C31: a click of the left button at the screen position (row, column) makes
\* the primary selection the empty caret at the buffer position
\* (row + scroll_offset, column).
C31_ClickSetsCaret ==
    ~panicked =>
        \A row \in 0..MaxInitLen :
            (row + scroll_offset < len_lines(text)) =>
                \A column \in 0..line_len(text, row + scroll_offset) :
                    LET r == handle_mouse_event(Editor, "DownLeft")
                        start == line_to_char(text, row + scroll_offset) + column
                    IN r.selection_set.primary.range = Range(start, start)

\* C32: select steps in the requested direction only when the current selection
\* mode is similar to the requested one; into a dissimilar mode it steps with
\* Direction::Current whatever the direction, so the first step selects the
\* canonical selection at the caret.
C32_SelectStepsOnlyWhenSimilar ==
    (~panicked /\ mode = "Normal") =>
        \A m \in {"Character", "Token"} : \A direction \in {"Forward", "Backward"} :
            LET r == select(Editor, m, direction)
                caret == to_char_index(selection_set.primary, cursor_direction)
            IN IF similar_to(selection_set.mode, m)
               THEN r.selection_set = get_selection_set(Editor, m, direction)
               ELSE /\ r.selection_set = get_selection_set(Editor, m, "Current")
                    /\ r.selection_set.primary.range.start <= caret
                    /\ caret < r.selection_set.primary.range.end

\* A token is selected that has a token before it and one after it: a step
\* into Character mode selects the character at the caret, and a step in Token
\* mode moves in the direction asked for.
C32_Witness ==
    /\ ~panicked
    /\ mode = "Normal"
    /\ last = "select_token"
    /\ selection_set.mode = "Token"
    /\ selection_set.primary.range.start > 0
    /\ select(Editor, "Token", "Forward").selection_set.primary.range.start
           > selection_set.primary.range.start
    /\ select(Editor, "Token", "Backward").selection_set.primary.range.start
           < selection_set.primary.range.start
    /\ select(Editor, "Character", "Backward").selection_set.primary.range.start
           = selection_set.primary.range.start

\* C33: select pushes onto the selection history only when the selection set it
\* produces is distinct from the current one; a select that produces the same
\* set leaves the history unchanged.
C33_SelectPushesOnlyDistinct ==
    (~panicked /\ mode = "Normal") =>
        \A m \in {"Character", "Token"} : \A direction \in {"Forward", "Backward"} :
            LET r == select(Editor, m, direction)
            IN IF r.selection_set = selection_set
               THEN r.selection_history = selection_history
               ELSE r.selection_history = Append(selection_history, r.selection_set)

RECURSIVE tried(_, _, _, _)
\* The candidates the loop of get_next_selection looks at from c on, in order:
\* each is the step from the one before, the last is the one the step leaves
\* where it is.
tried(e, c, m, direction) ==
    LET new_selection == get_selection_(e.text, c, m, direction, e.cursor_direction)
    IN IF new_selection = c THEN <<c>>
       ELSE <<c>> \o tried(e, new_selection, m, direction)

\* The transaction found for selection sel swaps it with candidate b: its two
\* edits put the text of b where sel is and the text of sel where b is.
SwapsWith(e, T, sel, b) ==
    LET A == slice(e.text, sel.range.start, sel.range.end)
        B == slice(e.text, b.range.start, b.range.end)
        es == edits(T)
    IN /\ Len(es) = 2
       /\ es[1].start = Min(sel.range.start, b.range.start)
       /\ \E j \in 1..2 : /\ es[j].old = A /\ es[j].new = B
                          /\ es[3 - j].old = B /\ es[3 - j].new = A

C35_JumpOnRegenerates ==
    (~panicked /\ mode = "Jump") =>
        \A key \in {"j", "J"} :
            LET r == handle_key_event(Editor, key)
                direction == IF key = "j" THEN "Forward" ELSE "Backward"
                extreme(i) ==
                    IF key = "j"
                    THEN \A k \in 1..Len(jumps) :
                             jumps[k].selection.range.start <= jumps[i].selection.range.start
                    ELSE \A k \in 1..Len(jumps) :
                             jumps[k].selection.range.end >= jumps[i].selection.range.end
            IN /\ ~r.panicked
               /\ r.mode = "Jump"
               /\ r.selection_set = selection_set
               /\ IF jumps = <<>> THEN r.jumps = <<>>
                  ELSE \E i \in 1..Len(jumps) :
                          LET from == jumps[i].selection
                              step == get_selection_(text, from, selection_set.mode,
                                                     direction, cursor_direction)
                          IN /\ extreme(i)
                             /\ GoodJumps(r.jumps, from, direction)
                             /\ IF step = from THEN r.jumps = <<>>
                                ELSE /\ r.jumps # <<>>
                                     /\ r.jumps[1].selection = step
                                     /\ r.jumps[1].character = "a"

\* The key j has regenerated the jumps beyond the labels of the first list: the
\* editor is in Jump mode, the first jump lies more than 62 characters after
\* the selection, which is where it was.
C35_Witness ==
    /\ ~panicked
    /\ mode = "Jump"
    /\ last = "jump_key"
    /\ jumps # <<>>
    /\ selection_set.primary.range = Range(0, 1)
    /\ jumps[1].selection.range.start > 62

RECURSIVE reaches_fixpoint(_, _, _, _, _)
\* The candidates from c on reach, within n steps, one that the step returns
\* unchanged: the exit of the loop of get_next_selection that needs no
\* candidate to be accepted.
reaches_fixpoint(e, c, m, direction, n) ==
    LET new_selection == get_selection_(e.text, c, m, direction, e.cursor_direction)
    IN \/ new_selection = c
       \/ n > 0 /\ reaches_fixpoint(e, new_selection, m, direction, n - 1)

\* C36: exchange always terminates: from every selection, in every selection
\* mode and direction, the candidates of the search reach a step that returns
\* the same selection after at most one candidate per character of the text,
\* so the search ends whether or not a candidate is accepted and cannot cycle
\* among rejected candidates.
C36_ExchangeTerminates ==
    ~panicked =>
        \A m \in {"Character", "Token", "Custom"} :
            \A direction \in {"Forward", "Backward"} :
                LET sels == selections_of(selection_set)
                IN \A i \in 1..Len(sels) :
                      reaches_fixpoint(Editor,
                          get_selection_(text, sels[i], m, direction, cursor_direction),
                          m, direction, Len(text))

\* An exchange forward from the first character has rejected two blank
\* candidates, met the end of the text and ended without a swap.
C36_Witness ==
    /\ ~panicked
    /\ last = "exchange"
    /\ selection_set.mode = "Character"
    /\ selection_set.secondary = <<>>
    /\ selection_set.primary.range = Range(0, 1)
    /\ text = <<"a", "\n", "\n">>
    /\ Len(undo_edits) = 1
    /\ edits(undo_edits[1]) = <<>>

\* C37: while the mode is Insert every selection is an empty caret, after any
\* sequence of keys, the universal keys (Ctrl+A, Ctrl+V, Ctrl+Z, Ctrl+Y, Left,
\* Right) included.
C37_InsertModeCarets ==
    (~panicked /\ mode = "Insert") =>
        \A i \in 1..Len(selections_of(selection_set)) :
            selections_of(selection_set)[i].range.start =
                selections_of(selection_set)[i].range.end

\* C38: an edit command that changes no text leaves the undo stack and the redo
\* stack unchanged: paste when no selection carries yanked text, and backspace
\* when every caret is at position 0.
C38_NoTextChangeNoHistory ==
    ~panicked =>
        LET sels == selections_of(selection_set)
            pasted == handle_key_event(Editor, "C-v")
            erased == handle_key_event(Editor, "Backspace")
        IN /\ (\A i \in 1..Len(sels) : sels[i].yanked_text = None) =>
                  /\ pasted.text = text
                  /\ pasted.undo_edits = undo_edits
                  /\ pasted.redo_edits = redo_edits
           /\ (mode = "Insert" /\ \A i \in 1..Len(sels) : sels[i].range.start = 0) =>
                  /\ erased.text = text
                  /\ erased.undo_edits = undo_edits
                  /\ erased.redo_edits = redo_edits

\* Every key the model knows.
AllKeys == UniversalKeys \cup NormalKeys \cup InsertKeys \cup JumpKeys

\* The key labels a jump of the list.
labels_jump(js, key) == \E i \in 1..Len(js) : js[i].character = key

\* The handler of the key leaves the mode, the jump list and the selection set
\* as they are.
KeyChangesNothing(key) ==
    LET r == handle_key_event(Editor, key)
    IN /\ r.mode = mode
       /\ r.jumps = jumps
       /\ r.selection_set = selection_set

\* Esc sets the mode to Normal and leaves the selection set unchanged.
EscLeavesJumpMode ==
    LET r == handle_key_event(Editor, "Esc")
    IN r.mode = "Normal" /\ r.selection_set = selection_set

\* C39: Jump mode is left only by Esc or by a labelled key: Esc sets the mode to
\* Normal and leaves the selection set unchanged, and any other key that labels
\* no jump leaves the mode, the jump list and the selection set unchanged.
C39_OtherKeysChangeNothing ==
    (~panicked /\ mode = "Jump") =>
        /\ EscLeavesJumpMode
        /\ \A key \in AllKeys \ {"Esc"} :
               ~labels_jump(jumps, key) => KeyChangesNothing(key)

\* C39 as the code has it: Jump mode is left only by Esc or by a labelled key;
\* Esc sets the mode to Normal and leaves the selection set unchanged; a key
\* that labels no jump and is neither a universal key nor j or J leaves the
\* mode, the jump list and the selection set unchanged, and so do j and J when
\* the jump list is empty.
C39_UnlabelledKeysChangeNothing ==
    (~panicked /\ mode = "Jump") =>
        /\ EscLeavesJumpMode
        /\ \A key \in AllKeys \ {"Esc"} :
               ~labels_jump(jumps, key) =>
                   /\ handle_key_event(Editor, key).mode = "Jump"
                   /\ (key \notin UniversalKeys \cup {"j", "J"} \/
                        (key \in {"j", "J"} /\ jumps = <<>>)) =>
                          KeyChangesNothing(key)

\* A key of Jump mode has been handled and the editor is in Jump mode with a
\* jump list in which the key 1 labels nothing.
C39_Witness ==
    /\ ~panicked
    /\ mode = "Jump"
    /\ last = "jump_key"
    /\ jumps # <<>>
    /\ ~labels_jump(jumps, "1")
    /\ KeyChangesNothing("1")
    /\ ~KeyChangesNothing("j")

\* The comparison has returned an ordering to its caller.
Returned ==
    /\ comparison.stack = <<>>
    /\ comparison.returned # None

\* C40: comparing two CompletionItems terminates: a comparison that has started
\* through cmp or partial_cmp eventually returns an ordering to its caller.
C40_CompareTerminates == (comparison.stack # <<>>) ~> Returned
====
